---- MODULE Spec2Model ----
(***************************************************************************)
(* Model of the dss manifest tool (dss/dss/cli.py): the commands add, push *)
(* and pull acting on the manifest file manifest.yml, on the files of the  *)
(* working directory and on a remote host reached through ssh and rsync.   *)
(*                                                                         *)
(* A manifest is a mapping with ordered keys (Python dict, yaml written    *)
(* with sort_keys=False).  It is modelled as a record holding the order of *)
(* its top-level keys, the order of the dataset names, and the values.     *)
(* A key that is absent holds a fixed default value so that equal          *)
(* manifests are equal records.                                            *)
(***************************************************************************)
EXTENDS Integers, Sequences, FiniteSets, TLC

(***************************************************************************)
(* Bounds of the model.                                                    *)
(***************************************************************************)
MaxCmds == 2        \* command invocations in one behaviour
MaxArgs == 2        \* file names on one command line
MaxDigits == 7      \* base-1024 digits of a file size

(***************************************************************************)
(* Files of the working directory.                                         *)
(***************************************************************************)
Names == {"a", "b"}                 \* regular data file names
Contents == {1, 2}                  \* distinct file contents
SizeTable == <<13, 2048>>           \* st_size of each content
RemoteIds == {"1", "2"}

NoFile == [kind |-> "absent", content |-> 0]
FileOf(c) == [kind |-> "file", content |-> c]
\* a data file is absent, readable with some content, or unreadable
FileStates ==
    {NoFile, [kind |-> "locked", content |-> 0]} \cup {FileOf(c) : c \in Contents}

\* hashlib.sha256 of a content: injective, never the empty string (0)
calculate_sha256(c) == 100 + c

\* Path.exists / is_dir / is_file on the kind of a directory entry
PathExists(k) == k # "absent"
PathIsDir(k) == k = "dir"
PathIsFile(k) == k \in {"file", "locked"}

(***************************************************************************)
(* format_size: repeated division by 1024.0 over B,K,M,G,T, then P.  A     *)
(* size is held as its digits in base 1024, least significant first, so    *)
(* that sizes beyond a petabyte can be formatted; a division by 1024.0 is  *)
(* a shift by one digit.  The rendering is a record: whole part, the one   *)
(* decimal digit (-1 when none is printed), unit.                          *)
(***************************************************************************)
Units == <<"B", "K", "M", "G", "T">>

\* the digits of a file size that fits a machine word
ToDigits(n) ==
    [i \in 1..MaxDigits |-> IF i <= 4 THEN (n \div (1024 ^ (i - 1))) % 1024 ELSE 0]

\* the integer written by the digits from position lo upwards
RECURSIVE WholeFrom(_, _)
WholeFrom(digits, lo) ==
    IF lo > Len(digits) THEN 0
    ELSE digits[lo] + 1024 * WholeFrom(digits, lo + 1)

\* ten times a fraction given by its digits: <<digits of the product, carry>>
RECURSIVE TimesTen(_, _, _)
TimesTen(frac, i, carry) ==
    IF i > Len(frac) THEN <<<<>>, carry>>
    ELSE LET p == 10 * frac[i] + carry
             rest == TimesTen(frac, i + 1, p \div 1024)
         IN  <<<<p % 1024>> \o rest[1], rest[2]>>

\* f"{x:.1f}" of whole + frac / 1024^Len(frac): the nearest tenth, ties to even
OneDecimal(whole, frac) ==
    LET prod == TimesTen(frac, 1, 0)
        t == prod[2]
        rem == prod[1]
        k == Len(rem)
        low == \A i \in 1..(k - 1) : rem[i] = 0
        up == IF k = 0 THEN t
              ELSE IF rem[k] > 512 \/ (rem[k] = 512 /\ ~low) THEN t + 1
              ELSE IF rem[k] < 512 THEN t
              ELSE IF t % 2 = 0 THEN t ELSE t + 1
    IN  <<whole + (up \div 10), up % 10>>

\* the loop after k divisions by 1024.0
RECURSIVE format_size_loop(_, _)
format_size_loop(digits, k) ==
    IF k = Len(Units)
    THEN LET d == OneDecimal(WholeFrom(digits, k + 1), SubSeq(digits, 1, k))
         IN  [whole |-> d[1], tenth |-> d[2], unit |-> "P"]
    ELSE IF \A i \in (k + 2)..Len(digits) : digits[i] = 0
         THEN IF Units[k + 1] = "B"
              THEN [whole |-> digits[1], tenth |-> -1, unit |-> "B"]
              ELSE LET d == OneDecimal(digits[k + 1], SubSeq(digits, 1, k))
                   IN  [whole |-> d[1], tenth |-> d[2], unit |-> Units[k + 1]]
         ELSE format_size_loop(digits, k + 1)

\* every unit is printed with one decimal, B included
FormatDigits_decimalB(digits) ==
    LET r == format_size_loop(digits, 0)
    IN  IF r.unit = "B" THEN [r EXCEPT !.tenth = 0] ELSE r

\* format_size of a size given by its digits
FormatDigits(digits) == format_size_loop(digits, 0)

format_size(size_bytes) == FormatDigits(ToDigits(size_bytes))

NoSize == [whole |-> 0, tenth |-> -1, unit |-> ""]

\* the sizes format_size is tried on: every digit 0 but one leading digit
\* and the digit below it
ZeroDigits == [i \in 1..MaxDigits |-> 0]
LeadDigits == {1, 13, 1023}
NextDigits == {0, 51, 256, 768, 1023}
Sizes ==
    {ZeroDigits}
    \cup {[ZeroDigits EXCEPT ![1] = h] : h \in LeadDigits}
    \cup {[ZeroDigits EXCEPT ![k] = h, ![k - 1] = l] :
             k \in 2..MaxDigits, h \in LeadDigits, l \in NextDigits}
NoFormat == [size_bytes |-> ZeroDigits, size_human |-> NoSize]

(***************************************************************************)
(* Ordered mappings.                                                       *)
(***************************************************************************)
InSeq(x, s) == \E i \in 1..Len(s) : s[i] = x
\* dict[key] = value keeps the position of an existing key, appends a new one
PutKey(keys, k) == IF InSeq(k, keys) THEN keys ELSE Append(keys, k)

RemoteKey(id) == "remote@" \o id
RemoteKeys == {RemoteKey(id) : id \in RemoteIds}

(***************************************************************************)
(* Paths are sequences of tokens, "/" being the separator; a manifest_uuid *)
(* appears in a path as its decimal string.                                *)
(***************************************************************************)
NoPath == <<>>
\* f"{manifest_uuid}/{filename}"
RelativePath(manifest_uuid, filename) ==
    <<ToString(manifest_uuid), "/", filename>>

\* the trailing separators of base_path are kept
rstrip_none(path) == path

\* str.rstrip('/')
RECURSIVE rstrip(_)
rstrip(path) ==
    IF path # <<>> /\ path[Len(path)] = "/"
    THEN rstrip(SubSeq(path, 1, Len(path) - 1))
    ELSE path

\* f"{remote_base_path.rstrip('/')}/{manifest_uuid}"
RemoteDir(base_path, manifest_uuid) ==
    rstrip(base_path) \o <<"/", ToString(manifest_uuid)>>

\* f"{remote_dir}/{filename}"
RemoteFilePath(base_path, manifest_uuid, filename) ==
    RemoteDir(base_path, manifest_uuid) \o <<"/", filename>>

\* a dataset entry; keys lists the fields that are present, in order
NoEntry ==
    [keys |-> <<>>, sha256 |-> 0, size_bytes |-> 0, size_human |-> NoSize,
     uploaded |-> 0, description |-> "", uuid |-> 0,
     paths |-> [r \in RemoteKeys |-> NoPath]]

\* a remote profile; keys lists the fields that are present
NoProfile == [keys |-> <<>>, base_path |-> <<>>, local_ref_path |-> ""]
FullProfile == [NoProfile EXCEPT
                  !.keys = <<"uname", "url", "base_path", "port">>,
                  !.base_path = <<"/", "data", "/", "test">>]
\* the same directory written with a trailing separator, no port
SlashProfile == [NoProfile EXCEPT
                   !.keys = <<"uname", "url", "base_path">>,
                   !.base_path = <<"/", "data", "/", "test", "/">>]
PartProfile == [NoProfile EXCEPT
                  !.keys = <<"uname", "base_path">>,
                  !.base_path = <<"/", "data", "/", "test", "/">>]

NoManifest ==
    [exists |-> FALSE, topKeys |-> <<>>, manifest_uuid |-> 0,
     dsKeys |-> <<>>, ds |-> [n \in Names |-> NoEntry],
     remotes |-> [r \in RemoteKeys |-> NoProfile]]

HasTop(m, k) == InSeq(k, m.topKeys)

(***************************************************************************)
(* Entries as the add command writes them, and the manifests a working     *)
(* directory can hold when a command starts.                               *)
(***************************************************************************)
NewEntry(sha, size, now) ==
    [NoEntry EXCEPT
        !.keys = <<"sha256", "size_bytes", "size_human", "uploaded", "description">>,
        !.sha256 = sha, !.size_bytes = size, !.size_human = format_size(size),
        !.uploaded = now, !.description = ""]

\* the entry is replaced by a new one instead of updated
UpdateEntry_replace(e, sha, size, now) == NewEntry(sha, size, now)

\* dict.update of the four recomputed fields of an existing entry
UpdateEntry(e, sha, size, now) ==
    [e EXCEPT
        !.keys = PutKey(PutKey(PutKey(PutKey(e.keys,
                    "sha256"), "size_bytes"), "size_human"), "uploaded"),
        !.sha256 = sha, !.size_bytes = size, !.size_human = format_size(size),
        !.uploaded = now]

\* datasets[filename][remote_key] = relative_path
SetRemotePath(e, remote_key, relative_path) ==
    [e EXCEPT !.keys = PutKey(e.keys, remote_key),
              !.paths = [e.paths EXCEPT ![remote_key] = relative_path]]

TrackedEntry(c, desc) ==
    [NewEntry(calculate_sha256(c), SizeTable[c], 0) EXCEPT !.description = desc]

\* an entry written by an old version: per-file uuid, no description
LegacyEntry(c) ==
    [NoEntry EXCEPT
        !.keys = <<"uuid", "sha256", "size_bytes", "size_human", "uploaded">>,
        !.uuid = 7, !.sha256 = calculate_sha256(c), !.size_bytes = SizeTable[c],
        !.size_human = format_size(SizeTable[c])]

FreshManifest ==
    [NoManifest EXCEPT
        !.exists = TRUE,
        !.topKeys = <<"version", "manifest_uuid", "datasets", "remote@1">>,
        !.manifest_uuid = 1,
        !.remotes = [NoManifest.remotes EXCEPT !["remote@1"] = FullProfile]]

StdManifest ==
    [FreshManifest EXCEPT
        !.topKeys = <<"version", "manifest_uuid", "datasets", "remote@1", "remote@2">>,
        !.dsKeys = <<"a">>,
        !.ds = [NoManifest.ds EXCEPT !["a"] = TrackedEntry(1, "Test file")],
        !.remotes = [FreshManifest.remotes EXCEPT !["remote@2"] = PartProfile]]

TwoManifest ==
    [StdManifest EXCEPT
        !.dsKeys = <<"b", "a">>,
        !.ds = [StdManifest.ds EXCEPT
                  !["b"] = SetRemotePath(TrackedEntry(2, "second"), "remote@1",
                                         RelativePath(1, "b"))],
        !.remotes = [StdManifest.remotes EXCEPT !["remote@2"] = SlashProfile]]

LegacyManifest ==
    [NoManifest EXCEPT
        !.exists = TRUE,
        !.topKeys = <<"version", "datasets", "remote@1">>,
        !.dsKeys = <<"a">>,
        !.ds = [NoManifest.ds EXCEPT !["a"] = LegacyEntry(1)],
        !.remotes = [NoManifest.remotes EXCEPT !["remote@1"] = FullProfile]]

BareManifest ==
    [FreshManifest EXCEPT !.topKeys = <<"version", "manifest_uuid", "remote@1">>]

InitManifests ==
    {NoManifest, FreshManifest, StdManifest, TwoManifest, LegacyManifest,
     BareManifest}

(***************************************************************************)
(* manifest.yml as text.  A YAML document is the sequence of its lines,    *)
(* each the path of keys leading to it and its scalar value (a line that   *)
(* opens a nested mapping has none).  yaml.dump writes the keys of every   *)
(* mapping in dict order, or sorted when sort_keys is set; yaml.safe_load  *)
(* builds every mapping in the order of the lines.                         *)
(***************************************************************************)
Line(path, val) == [path |-> path, val |-> val]

RECURSIVE Flatten(_)
Flatten(seqs) == IF seqs = <<>> THEN <<>> ELSE Head(seqs) \o Flatten(Tail(seqs))

\* every key a manifest can hold, in sorted order
SortedKeys ==
    <<"a", "b", "base_path", "datasets", "description", "local_ref_path",
      "manifest_uuid", "port", "remote@1", "remote@2", "sha256", "size_bytes",
      "size_human", "uname", "uploaded", "url", "uuid", "version">>
Sorted(keys) == SelectSeq(SortedKeys, LAMBDA k : InSeq(k, keys))

FieldValue(e, k) ==
    CASE k = "sha256" -> e.sha256
      [] k = "size_bytes" -> e.size_bytes
      [] k = "size_human" -> e.size_human
      [] k = "uploaded" -> e.uploaded
      [] k = "description" -> e.description
      [] k = "uuid" -> e.uuid
      [] OTHER -> e.paths[k]

ProfileValue(p, k) ==
    CASE k = "base_path" -> p.base_path
      [] k = "local_ref_path" -> p.local_ref_path
      [] OTHER -> ""

\* yaml.dump(manifest_data, f, default_flow_style=False, sort_keys=...)
yaml_dump(data, sort_keys) ==
    LET Ord(keys) == IF sort_keys THEN Sorted(keys) ELSE keys
        Entry(n) ==
            <<Line(<<"datasets", n>>, "")>> \o
            [i \in 1..Len(data.ds[n].keys) |->
                Line(<<"datasets", n, Ord(data.ds[n].keys)[i]>>,
                     FieldValue(data.ds[n], Ord(data.ds[n].keys)[i]))]
        Profile(r) ==
            <<Line(<<r>>, "")>> \o
            [i \in 1..Len(data.remotes[r].keys) |->
                Line(<<r, Ord(data.remotes[r].keys)[i]>>,
                     ProfileValue(data.remotes[r], Ord(data.remotes[r].keys)[i]))]
        Top(k) ==
            IF k = "datasets"
            THEN <<Line(<<k>>, "")>> \o
                 Flatten([i \in 1..Len(data.dsKeys) |-> Entry(Ord(data.dsKeys)[i])])
            ELSE IF k \in RemoteKeys THEN Profile(k)
            ELSE IF k = "manifest_uuid" THEN <<Line(<<k>>, data.manifest_uuid)>>
            ELSE <<Line(<<k>>, "1.0")>>
    IN  Flatten([i \in 1..Len(data.topKeys) |-> Top(Ord(data.topKeys)[i])])

\* yaml.safe_load(f)
yaml_safe_load(doc) ==
    LET Under(prefix) ==
            SelectSeq(doc, LAMBDA l : /\ Len(l.path) = Len(prefix) + 1
                                      /\ SubSeq(l.path, 1, Len(prefix)) = prefix)
        KeysAt(prefix) ==
            [i \in 1..Len(Under(prefix)) |-> Under(prefix)[i].path[Len(prefix) + 1]]
        Has(path) == \E i \in 1..Len(doc) : doc[i].path = path
        Val(path, default) ==
            IF Has(path)
            THEN doc[CHOOSE i \in 1..Len(doc) : doc[i].path = path].val
            ELSE default
    IN  [exists |-> TRUE,
         topKeys |-> KeysAt(<<>>),
         manifest_uuid |-> Val(<<"manifest_uuid">>, 0),
         dsKeys |-> KeysAt(<<"datasets">>),
         ds |-> [n \in Names |->
            [keys |-> KeysAt(<<"datasets", n>>),
             sha256 |-> Val(<<"datasets", n, "sha256">>, 0),
             size_bytes |-> Val(<<"datasets", n, "size_bytes">>, 0),
             size_human |-> Val(<<"datasets", n, "size_human">>, NoSize),
             uploaded |-> Val(<<"datasets", n, "uploaded">>, 0),
             description |-> Val(<<"datasets", n, "description">>, ""),
             uuid |-> Val(<<"datasets", n, "uuid">>, 0),
             paths |-> [r \in RemoteKeys |-> Val(<<"datasets", n, r>>, NoPath)]]],
         remotes |-> [r \in RemoteKeys |->
            [keys |-> KeysAt(<<r>>),
             base_path |-> Val(<<r, "base_path">>, <<>>),
             local_ref_path |-> Val(<<r, "local_ref_path">>, "")]]]

\* the keys of every mapping are written in sorted order
SaveManifest_sorted(data) == yaml_safe_load(yaml_dump(data, TRUE))

\* manifest.yml after open(manifest_path, "w") and yaml.dump with
\* sort_keys=False, as the mapping the file holds
SaveManifest(data) == yaml_safe_load(yaml_dump(data, FALSE))

(***************************************************************************)
(* Command-line candidates of add.  A candidate names a directory entry:   *)
(* its base name, whether its resolved parent is the manifest directory,   *)
(* and its kind ("dyn": one of the data files, whose kind is in fs).       *)
(***************************************************************************)
Cand(name, here, kind) == [name |-> name, here |-> here, kind |-> kind]
HiddenNames == {".h", ".d", ".s"}
StaticCands ==
    {Cand(".h", TRUE, "absent"), Cand(".d", TRUE, "dir"),
     Cand(".s", TRUE, "special"),
     Cand("manifest.yml", FALSE, "special"), Cand("manifest.yml", FALSE, "file"),
     Cand("c", FALSE, "file")}
Cands == {Cand(n, TRUE, "dyn") : n \in Names} \cup StaticCands

SeqsUpTo(S, n) == UNION {[1..k -> S] : k \in 0..n}
\* command lines that name no file twice
DistinctSeqsUpTo(S, n) ==
    {s \in SeqsUpTo(S, n) : \A i, j \in 1..Len(s) : s[i] = s[j] => i = j}

(***************************************************************************)
(* init (dss/cli.py 122-187, archive/cli.py 134-192): the default remote   *)
(* configuration file ~/.config/<tool>/remote and the working directories  *)
(* in which init is run.                                                   *)
(***************************************************************************)
Dirs == {"d1", "d2"}
RefPaths == {"", "ref"}             \* archive init --refpath
ConfigKeys == RemoteKeys \cup {"editor"}

\* a profile of the default file that lacks base_path
NoBaseProfile == [NoProfile EXCEPT !.keys = <<"uname", "url">>]

\* the default file: absent, not parseable, empty, or a mapping
NoConfig ==
    [kind |-> "absent", keys |-> <<>>, values |-> [k \in ConfigKeys |-> NoProfile]]
InvalidConfig == [NoConfig EXCEPT !.kind = "invalid"]
EmptyConfig == [NoConfig EXCEPT !.kind = "empty"]
OneConfig ==
    [kind |-> "dict", keys |-> <<"remote@1">>,
     values |-> [NoConfig.values EXCEPT !["remote@1"] = FullProfile]]
TwoConfig ==
    [kind |-> "dict", keys |-> <<"remote@1", "editor", "remote@2">>,
     values |-> [NoConfig.values EXCEPT !["remote@1"] = FullProfile,
                                        !["remote@2"] = SlashProfile]]
HeadlessConfig ==
    [kind |-> "dict", keys |-> <<"remote@1", "remote@2">>,
     values |-> [NoConfig.values EXCEPT !["remote@1"] = NoBaseProfile,
                                        !["remote@2"] = FullProfile]]
TaillessConfig ==
    [kind |-> "dict", keys |-> <<"remote@2", "remote@1">>,
     values |-> [NoConfig.values EXCEPT !["remote@1"] = NoBaseProfile,
                                        !["remote@2"] = FullProfile]]
Configs == {NoConfig, InvalidConfig, EmptyConfig, OneConfig, TwoConfig,
            HeadlessConfig, TaillessConfig}

\* .gitignore: its lines, and whether the last one ends with a newline
NoIgnore == [exists |-> FALSE, lines |-> <<>>, eol |-> TRUE]
OtherIgnore == [exists |-> TRUE, lines |-> <<"existing_content">>, eol |-> TRUE]

\* an archive.yml written by an earlier archive init
OldArchive ==
    [NoManifest EXCEPT
        !.exists = TRUE,
        !.topKeys = <<"remote@1">>,
        !.remotes = [NoManifest.remotes EXCEPT !["remote@1"] =
            [FullProfile EXCEPT
                !.base_path = <<"/", "data", "/", "test", "/", "9", "/">>]]]

\* a working directory: manifest.yml, archive.yml and .gitignore
NoDir == [manifest |-> NoManifest, archive |-> NoManifest, gitignore |-> NoIgnore]
DirStates ==
    [manifest : {NoManifest, StdManifest}, archive : {NoManifest, OldArchive},
     gitignore : {NoIgnore, OtherIgnore}]

NoInit ==
    [tool |-> "none", dir |-> "", refpath |-> "", exitCode |-> -1, uuid |-> 0,
     warned |-> FALSE, before |-> NoDir]

\* str(Path(p)): repeated separators collapse, a trailing separator is dropped
PathStr(path) ==
    LET idxs == [i \in 1..Len(path) |-> i]
        kept == SelectSeq(idxs,
                    LAMBDA i : ~(path[i] = "/" /\ i > 1 /\ path[i - 1] = "/"))
        once == [j \in 1..Len(kept) |-> path[kept[j]]]
    IN  IF Len(once) > 1 /\ once[Len(once)] = "/"
        THEN SubSeq(once, 1, Len(once) - 1)
        ELSE once

\* str(Path(p) / segment)
PathJoin(path, segment) ==
    LET p == PathStr(path)
    IN  IF p = <<>> THEN <<segment>>
        ELSE IF p = <<"/">> THEN <<"/", segment>>
        ELSE p \o <<"/", segment>>

VARIABLES
    disk,       \* manifest.yml on disk
    fs,         \* the data files of the working directory
    pc,         \* position of the running command
    cmd,        \* the command being run, or last run
    argv,       \* its file arguments
    remote_key, \* push, pull: "remote@<id>"
    mem,        \* manifest_data, the loaded manifest
    files,      \* valid_files / files_to_push / files_to_pull
    idx,        \* position in files
    counts,     \* summary counters of add and pull
    manifest_updated,
    rejected,   \* add: candidates skipped by the filter, with the reason
    ops,        \* remote commands run by this invocation, with exit status
    outcomes,   \* per-file outcome of this invocation
    exitCode,   \* -1 while running or before any command
    announced,  \* ids logged as "Generated new manifest UUID", all invocations
    nextUuid,   \* the next value of uuid.uuid4()
    clock,      \* datetime.utcnow(), one tick per invocation
    disk0,      \* manifest.yml when the invocation started
    opened,     \* times this invocation opened manifest.yml to read, to write
    home,       \* init: the default remote configuration file of the user
    dirs,       \* init: working directories (manifest, archive, .gitignore)
    inits,      \* the invocations of init and of archive push and pull so
                \* far: where each was run and what it reported
    fmt         \* format_size: the size given and the rendering returned

vars == <<disk, fs, pc, cmd, argv, remote_key, mem, files, idx, counts,
          manifest_updated, rejected, ops, outcomes, exitCode, announced,
          nextUuid, clock, disk0, opened, home, dirs, inits, fmt>>

\* the state of the init commands and of a lone call of format_size,
\* which add, push and pull never touch
ivars == <<home, dirs, inits, fmt>>

NoOpen == [r |-> 0, w |-> 0]
\* open(manifest_path, "r") and yaml.safe_load
Loaded == [r |-> 1, w |-> 0]
\* open(manifest_path, "w") and yaml.dump
Written(o) == [o EXCEPT !.w = o.w + 1]

ZeroCounts == [added |-> 0, updated |-> 0, unchanged |-> 0,
               pulled |-> 0, missing |-> 0]
\* the counter is left as it is
Count_skipped(c, k) == c
\* <k>_count += 1
Count(c, k) == [c EXCEPT ![k] = c[k] + 1]

Init ==
    /\ disk \in InitManifests
    /\ fs \in [Names -> FileStates]
    /\ pc = "idle"
    /\ cmd = "none"
    /\ argv = <<>>
    /\ remote_key = ""
    /\ mem = NoManifest
    /\ files = <<>>
    /\ idx = 1
    /\ counts = ZeroCounts
    /\ manifest_updated = FALSE
    /\ rejected = <<>>
    /\ ops = <<>>
    /\ outcomes = <<>>
    /\ exitCode = -1
    /\ announced = <<>>
    /\ nextUuid = 2
    /\ clock = 0
    /\ disk0 = disk
    /\ opened = NoOpen
    /\ home = NoConfig
    /\ dirs = [d \in Dirs |-> NoDir]
    /\ inits = <<>>
    /\ fmt = NoFormat

(***************************************************************************)
(* add: eligibility filter (cli.py 216-258)                                *)
(***************************************************************************)
KindOf(c) == IF c.kind = "dyn" THEN fs[c.name].kind ELSE c.kind

\* the name checks made before the existence checks
RejectReason_nameFirst(c) ==
    IF c.name \in HiddenNames THEN "hidden"
    ELSE IF c.name = "manifest.yml" THEN "is_manifest"
    ELSE IF ~PathExists(KindOf(c)) THEN "not_found"
    ELSE IF PathIsDir(KindOf(c)) THEN "is_directory"
    ELSE IF ~PathIsFile(KindOf(c)) THEN "not_regular"
    ELSE IF ~c.here THEN "wrong_directory"
    ELSE "ok"

\* the reason a candidate is skipped, "ok" when it is kept
RejectReason(c) ==
    IF ~PathExists(KindOf(c)) THEN "not_found"
    ELSE IF PathIsDir(KindOf(c)) THEN "is_directory"
    ELSE IF c.name \in HiddenNames THEN "hidden"
    ELSE IF ~PathIsFile(KindOf(c)) THEN "not_regular"
    ELSE IF c.name = "manifest.yml" THEN "is_manifest"
    ELSE IF ~c.here THEN "wrong_directory"
    ELSE "ok"

IsValid(c) == RejectReason(c) = "ok"
IsRejected(c) == RejectReason(c) # "ok"

\* a name given more than once is kept once
ValidFiles_unique(filenames) ==
    LET kept == SelectSeq(filenames, IsValid)
        idxs == [i \in 1..Len(kept) |-> i]
        firsts == SelectSeq(idxs,
                      LAMBDA i : \A j \in 1..(i - 1) : kept[j].name # kept[i].name)
    IN  [i \in 1..Len(firsts) |-> kept[firsts[i]].name]

\* valid_files: the base names of the kept candidates, in command-line order
ValidFiles(filenames) ==
    LET kept == SelectSeq(filenames, IsValid)
    IN  [i \in 1..Len(kept) |-> kept[i].name]

Rejections(filenames) ==
    LET skipped == SelectSeq(filenames, IsRejected)
    IN  [i \in 1..Len(skipped) |->
            [cand |-> skipped[i], reason |-> RejectReason(skipped[i])]]

(***************************************************************************)
(* add: load, ensure datasets and manifest_uuid (cli.py 265-277)           *)
(***************************************************************************)
EnsureDatasets(m) ==
    IF HasTop(m, "datasets") THEN m
    ELSE [m EXCEPT !.topKeys = Append(m.topKeys, "datasets"), !.dsKeys = <<>>]

NeedsUuid(m) == ~HasTop(m, "manifest_uuid")

\* a new id is generated on every add
EnsureUuid_always(m, fresh) ==
    [m EXCEPT !.topKeys = PutKey(m.topKeys, "manifest_uuid"),
              !.manifest_uuid = fresh]

EnsureUuid(m, fresh) ==
    IF NeedsUuid(m)
    THEN [m EXCEPT !.topKeys = Append(m.topKeys, "manifest_uuid"),
                   !.manifest_uuid = fresh]
    ELSE m

\* the manifest as loaded and changed so far is saved before the exit
OnAbort_saved(file, data) == SaveManifest(data)

\* except Exception: logging.error(...), sys.exit(1); manifest.yml is left
\* as it is, whatever manifest_data holds
OnAbort(file, data) == file

\* the directory entry a base name of the working directory denotes
Lookup(name) == IF name \in Names THEN fs[name] ELSE NoFile

Outcome(name, result) == [file |-> name, result |-> result]

StartAdd(filenames) ==
    /\ pc = "idle"
    /\ clock < MaxCmds
    /\ cmd' = "add"
    /\ argv' = filenames
    /\ remote_key' = ""
    /\ clock' = clock + 1
    /\ disk0' = disk
    /\ ops' = <<>>
    /\ outcomes' = <<>>
    /\ counts' = ZeroCounts
    /\ manifest_updated' = FALSE
    /\ idx' = 1
    /\ opened' = IF disk.exists /\ ValidFiles(filenames) # <<>> THEN Loaded
                  ELSE NoOpen
    /\ IF ~disk.exists
       THEN /\ rejected' = <<>>
            /\ files' = <<>>
            /\ mem' = NoManifest
            /\ pc' = "done"
            /\ exitCode' = 1
            /\ UNCHANGED <<announced, nextUuid>>
       ELSE /\ rejected' = Rejections(filenames)
            /\ files' = ValidFiles(filenames)
            /\ IF ValidFiles(filenames) = <<>>
               THEN /\ mem' = NoManifest
                    /\ pc' = "done"
                    /\ exitCode' = 1
                    /\ UNCHANGED <<announced, nextUuid>>
               ELSE /\ mem' = EnsureUuid(EnsureDatasets(disk), nextUuid)
                    /\ announced' = IF NeedsUuid(disk)
                                    THEN Append(announced, nextUuid)
                                    ELSE announced
                    /\ nextUuid' = IF NeedsUuid(disk) THEN nextUuid + 1
                                   ELSE nextUuid
                    /\ pc' = "add_loop"
                    /\ exitCode' = -1
    /\ UNCHANGED <<disk, fs>>
    /\ UNCHANGED ivars

(***************************************************************************)
(* add: one file of the batch (cli.py 280-319)                             *)
(***************************************************************************)
\* an existing entry is rewritten without comparing digests
Classify_noCompare(m, name, sha) ==
    IF InSeq(name, m.dsKeys) THEN "updated" ELSE "added"

Classify(m, name, sha) ==
    IF InSeq(name, m.dsKeys)
    THEN IF sha = m.ds[name].sha256 THEN "unchanged" ELSE "updated"
    ELSE "added"

\* a new entry replaces the datasets mapping instead of joining it
AddApply_fresh(m, name, sha, size, now) ==
    LET c == Classify(m, name, sha)
    IN  IF c = "unchanged" THEN m
        ELSE IF c = "updated"
        THEN [m EXCEPT !.ds = [m.ds EXCEPT
                 ![name] = UpdateEntry(m.ds[name], sha, size, now)]]
        ELSE [m EXCEPT !.dsKeys = <<name>>,
                       !.ds = [NoManifest.ds EXCEPT ![name] = NewEntry(sha, size, now)]]

AddApply(m, name, sha, size, now) ==
    LET c == Classify(m, name, sha)
    IN  IF c = "unchanged" THEN m
        ELSE IF c = "updated"
        THEN [m EXCEPT !.ds = [m.ds EXCEPT
                 ![name] = UpdateEntry(m.ds[name], sha, size, now)]]
        ELSE [m EXCEPT !.dsKeys = Append(m.dsKeys, name),
                       !.ds = [m.ds EXCEPT ![name] = NewEntry(sha, size, now)]]

AddFile ==
    /\ pc = "add_loop"
    /\ idx <= Len(files)
    /\ LET name == files[idx]
           f == Lookup(name)
       IN  IF f.kind # "file"
           THEN \* stat or open raises: except Exception, sys.exit(1)
                /\ outcomes' = Append(outcomes, Outcome(name, "io_error"))
                /\ pc' = "done"
                /\ exitCode' = 1
                /\ disk' = OnAbort(disk, mem)
                /\ UNCHANGED <<mem, counts, idx>>
           ELSE LET sha == calculate_sha256(f.content)
                    c == Classify(mem, name, sha)
                IN  /\ mem' = AddApply(mem, name, sha, SizeTable[f.content], clock)
                    /\ counts' = Count(counts, c)
                    /\ outcomes' = Append(outcomes, Outcome(name, c))
                    /\ idx' = idx + 1
                    /\ UNCHANGED <<pc, exitCode, disk>>
    /\ UNCHANGED <<fs, cmd, argv, remote_key, files, manifest_updated,
                   rejected, ops, announced, nextUuid, clock, disk0>>
    /\ UNCHANGED opened
    /\ UNCHANGED ivars

\* the manifest is written at the end of every add
AddWrites_always(c) == TRUE

\* the manifest is written iff a file was added or updated (cli.py 321-324)
AddWrites(c) == c.added > 0 \/ c.updated > 0

AddFinish ==
    /\ pc = "add_loop"
    /\ idx > Len(files)
    /\ disk' = IF AddWrites(counts) THEN SaveManifest(mem) ELSE disk
    /\ opened' = IF AddWrites(counts) THEN Written(opened) ELSE opened
    /\ pc' = "done"
    /\ exitCode' = 0
    /\ UNCHANGED <<fs, cmd, argv, remote_key, mem, files, idx, counts,
                   manifest_updated, rejected, ops, outcomes, announced,
                   nextUuid, clock, disk0>>
    /\ UNCHANGED ivars

(***************************************************************************)
(* push and pull: structural checks and file selection                     *)
(* (cli.py 508-566 and 353-417; the two commands share this prefix)        *)
(***************************************************************************)
ArgNames == Names \cup {"zz"}       \* "zz" is never a dataset name
Rcs == {0, 1}                       \* exit statuses of ssh and rsync
RequiredKeys == {"uname", "url", "base_path"}

ProfileComplete_unchecked(p) == TRUE
ProfileComplete(p) == \A k \in RequiredKeys : InSeq(k, p.keys)

\* manifest_data.get("datasets", {})
Datasets(m) == IF HasTop(m, "datasets") THEN m.dsKeys ELSE <<>>

InManifest(m, filename) == InSeq(filename, Datasets(m))

\* the names given are taken without looking them up in the manifest
SelectFiles_all(m, filenames) ==
    IF filenames # <<>> THEN filenames ELSE Datasets(m)

\* files_to_push / files_to_pull
SelectFiles(m, filenames) ==
    IF filenames # <<>>
    THEN SelectSeq(filenames, LAMBDA f : InManifest(m, f))
    ELSE Datasets(m)

UuidPresent_unchecked(m) == TRUE
\* manifest_data.get("manifest_uuid") is truthy
UuidPresent(m) == HasTop(m, "manifest_uuid") /\ m.manifest_uuid # 0

\* the first check that makes the command exit with code 1, or "ok"
StructuralError(m, rk, filenames) ==
    IF ~m.exists THEN "no_manifest"
    ELSE IF ~HasTop(m, rk) THEN "no_remote"
    ELSE IF ~ProfileComplete(m.remotes[rk]) THEN "incomplete_profile"
    ELSE IF Datasets(m) = <<>> THEN "no_datasets"
    ELSE IF SelectFiles(m, filenames) = <<>> THEN "no_files"
    ELSE IF ~UuidPresent(m) THEN "no_uuid"
    ELSE "ok"

StartSync(c, filenames, id) ==
    /\ pc = "idle"
    /\ clock < MaxCmds
    /\ cmd' = c
    /\ argv' = filenames
    /\ remote_key' = RemoteKey(id)
    /\ clock' = clock + 1
    /\ disk0' = disk
    /\ ops' = <<>>
    /\ outcomes' = <<>>
    /\ rejected' = <<>>
    /\ counts' = ZeroCounts
    /\ manifest_updated' = FALSE
    /\ idx' = 1
    /\ opened' = IF disk.exists THEN Loaded ELSE NoOpen
    /\ IF StructuralError(disk, RemoteKey(id), filenames) # "ok"
       THEN /\ mem' = NoManifest
            /\ files' = <<>>
            /\ pc' = "done"
            /\ exitCode' = 1
       ELSE /\ mem' = disk
            /\ files' = SelectFiles(disk, filenames)
            /\ pc' = c \o "_loop"
            /\ exitCode' = -1
    /\ UNCHANGED <<disk, fs, announced, nextUuid>>
    /\ UNCHANGED ivars

StartPush(filenames, id) == StartSync("push", filenames, id)
StartPull(filenames, id) == StartSync("pull", filenames, id)

\* the remote path a command of the running invocation names
RemoteTarget(op, name) ==
    LET base_path == mem.remotes[remote_key].base_path
    IN  IF op = "mkdir" THEN RemoteDir(base_path, mem.manifest_uuid)
        ELSE RemoteFilePath(base_path, mem.manifest_uuid, name)

RemoteOp(op, name, rc) ==
    [op |-> op, file |-> name, rc |-> rc, target |-> RemoteTarget(op, name)]

\* the path is recorded under every remote key
RecordRemote_everywhere(m, name, rk) ==
    [m EXCEPT !.ds = [m.ds EXCEPT ![name] =
        SetRemotePath(SetRemotePath(m.ds[name], "remote@1",
                                    RelativePath(m.manifest_uuid, name)),
                      "remote@2", RelativePath(m.manifest_uuid, name))]]

\* manifest_data["datasets"][filename][remote_key] = manifest_uuid/filename
RecordRemote(m, name, rk) ==
    [m EXCEPT !.ds = [m.ds EXCEPT ![name] =
        SetRemotePath(m.ds[name], rk, RelativePath(m.manifest_uuid, name))]]

\* break where the code says continue
NextFile_break(name, result, loop) ==
    /\ outcomes' = Append(outcomes, Outcome(name, result))
    /\ idx' = Len(files) + 1
    /\ pc' = loop

\* leave the file loop for the next file with the given outcome
NextFile(name, result, loop) ==
    /\ outcomes' = Append(outcomes, Outcome(name, result))
    /\ idx' = idx + 1
    /\ pc' = loop

(***************************************************************************)
(* push: one file (cli.py 571-618) and the final save (620-624)            *)
(***************************************************************************)
\* only a file whose digest is the recorded one is pushed
LocalReady_verified(local_file, file_info) ==
    /\ local_file.kind = "file"
    /\ calculate_sha256(local_file.content) = file_info.sha256

\* local_file.exists(); file_info = datasets[filename] is fetched, not read
LocalReady(local_file, file_info) == PathExists(local_file.kind)

PushLocal ==
    /\ pc = "push_loop"
    /\ idx <= Len(files)
    /\ IF ~LocalReady(Lookup(files[idx]), mem.ds[files[idx]])
       THEN NextFile(files[idx], "local_missing", "push_loop")
       ELSE /\ pc' = "push_mkdir"
            /\ UNCHANGED <<outcomes, idx>>
    /\ UNCHANGED <<disk, fs, cmd, argv, remote_key, mem, files, counts,
                   manifest_updated, rejected, ops, exitCode, announced,
                   nextUuid, clock, disk0>>
    /\ UNCHANGED opened
    /\ UNCHANGED ivars

\* the exit status of mkdir is not looked at
MkdirOk_ignored(rc) == TRUE

MkdirOk(rc) == rc = 0

PushMkdir(rc) ==
    /\ pc = "push_mkdir"
    /\ ops' = Append(ops, RemoteOp("mkdir", files[idx], rc))
    /\ IF MkdirOk(rc)
       THEN /\ pc' = "push_rsync"
            /\ UNCHANGED <<outcomes, idx>>
       ELSE NextFile(files[idx], "remote_dir_failed", "push_loop")
    /\ UNCHANGED <<disk, fs, cmd, argv, remote_key, mem, files, counts,
                   manifest_updated, rejected, exitCode, announced, nextUuid,
                   clock, disk0>>
    /\ UNCHANGED opened
    /\ UNCHANGED ivars

TransferOk_ignored(rc) == TRUE
TransferOk(rc) == rc = 0

PushRsync(rc) ==
    /\ pc = "push_rsync"
    /\ ops' = Append(ops, RemoteOp("rsync", files[idx], rc))
    /\ IF TransferOk(rc)
       THEN /\ mem' = RecordRemote(mem, files[idx], remote_key)
            /\ manifest_updated' = TRUE
            /\ NextFile(files[idx], "pushed", "push_loop")
       ELSE /\ NextFile(files[idx], "transfer_failed", "push_loop")
            /\ UNCHANGED <<mem, manifest_updated>>
    /\ UNCHANGED <<disk, fs, cmd, argv, remote_key, files, counts, rejected,
                   exitCode, announced, nextUuid, clock, disk0>>
    /\ UNCHANGED opened
    /\ UNCHANGED ivars

SyncFinish(loop) ==
    /\ pc = loop
    /\ idx > Len(files)
    /\ disk' = IF manifest_updated THEN SaveManifest(mem) ELSE disk
    /\ opened' = IF manifest_updated THEN Written(opened) ELSE opened
    /\ pc' = "done"
    /\ exitCode' = 0
    /\ UNCHANGED <<fs, cmd, argv, remote_key, mem, files, idx, counts,
                   manifest_updated, rejected, ops, outcomes, announced,
                   nextUuid, clock, disk0>>
    /\ UNCHANGED ivars

PushFinish == SyncFinish("push_loop")

(***************************************************************************)
(* pull: one file (cli.py 420-473) and the final save (475-479)            *)
(***************************************************************************)
RemoteExists_ignored(rc) == TRUE
RemoteExists(rc) == rc = 0

PullLs(rc) ==
    /\ pc = "pull_loop"
    /\ idx <= Len(files)
    /\ ops' = Append(ops, RemoteOp("ls", files[idx], rc))
    /\ IF RemoteExists(rc)
       THEN /\ pc' = "pull_rsync"
            /\ UNCHANGED <<outcomes, idx, counts>>
       ELSE /\ counts' = Count(counts, "missing")
            /\ NextFile(files[idx], "remote_missing", "pull_loop")
    /\ UNCHANGED <<disk, fs, cmd, argv, remote_key, mem, files,
                   manifest_updated, rejected, exitCode, announced, nextUuid,
                   clock, disk0>>
    /\ UNCHANGED opened
    /\ UNCHANGED ivars

\* what rsync can leave at the local path: nothing new, or the remote bytes
RsyncLeaves(f, rc) ==
    IF rc = 0 THEN {f} \cup {FileOf(c) : c \in Contents} ELSE {f}

\* outcome of a pull whose rsync returned rc and left f at the local path
PullResult(f, rc, expected_sha256) ==
    IF rc # 0 THEN "transfer_failed"
    ELSE IF ~PathExists(f.kind) THEN "not_found_locally"
    ELSE IF f.kind # "file" THEN "io_error"
    ELSE IF calculate_sha256(f.content) = expected_sha256 THEN "verified"
    ELSE "integrity_mismatch"

PullRecords_verifiedOnly(res) == res = "verified"
\* the path is recorded whatever the transfer returned or left
PullRecords_always(res) == TRUE
\* the outcomes after which the remote path is recorded (cli.py 457-469)
PullRecords(res) == res \in {"verified", "integrity_mismatch"}

PullRsync(rc) ==
    /\ pc = "pull_rsync"
    /\ ops' = Append(ops, RemoteOp("rsync", files[idx], rc))
    /\ \E f \in RsyncLeaves(Lookup(files[idx]), rc) :
        LET name == files[idx]
            res == PullResult(f, rc, mem.ds[name].sha256)
        IN  /\ fs' = [fs EXCEPT ![name] = f]
            /\ IF res = "io_error"
               THEN \* calculate_sha256 raises: except Exception, sys.exit(1)
                    /\ outcomes' = Append(outcomes, Outcome(name, res))
                    /\ pc' = "done"
                    /\ exitCode' = 1
                    /\ disk' = OnAbort(disk, mem)
                    /\ UNCHANGED <<mem, manifest_updated, counts, idx>>
               ELSE /\ NextFile(name, res, "pull_loop")
                    /\ UNCHANGED <<exitCode, disk>>
                    /\ IF PullRecords(res)
                       THEN /\ mem' = RecordRemote(mem, name, remote_key)
                            /\ manifest_updated' = TRUE
                            /\ counts' = IF res = "verified"
                                         THEN Count(counts, "unchanged")
                                         ELSE Count(counts, "pulled")
                       ELSE UNCHANGED <<mem, manifest_updated, counts>>
    /\ UNCHANGED <<cmd, argv, remote_key, files, rejected, announced,
                   nextUuid, clock, disk0>>
    /\ UNCHANGED opened
    /\ UNCHANGED ivars

PullFinish == SyncFinish("pull_loop")

\* the process has exited; nothing of it remains but the files
Return ==
    /\ pc = "done"
    /\ pc' = "idle"
    /\ cmd' = "none"
    /\ argv' = <<>>
    /\ remote_key' = ""
    /\ mem' = NoManifest
    /\ files' = <<>>
    /\ idx' = 1
    /\ counts' = ZeroCounts
    /\ manifest_updated' = FALSE
    /\ rejected' = <<>>
    /\ ops' = <<>>
    /\ outcomes' = <<>>
    /\ exitCode' = -1
    /\ disk0' = disk
    /\ opened' = NoOpen
    /\ UNCHANGED <<disk, fs, announced, nextUuid, clock>>
    /\ UNCHANGED ivars

(***************************************************************************)
(* The tool: commands are run one at a time, to completion.                *)
(***************************************************************************)
\* the command lines tried
AddLines == SeqsUpTo(Cands, MaxArgs) \ {<<>>}
SyncLines == DistinctSeqsUpTo(ArgNames, Cardinality(Names))

AddCommand ==
    /\ pc = "idle"
    /\ \E filenames \in AddLines : StartAdd(filenames)

PushCommand ==
    /\ pc = "idle"
    /\ \E filenames \in SyncLines, id \in RemoteIds : StartPush(filenames, id)

PullCommand ==
    /\ pc = "idle"
    /\ \E filenames \in SyncLines, id \in RemoteIds : StartPull(filenames, id)

Next ==
    \/ Return
    \/ AddCommand
    \/ AddFile
    \/ AddFinish
    \/ PushCommand
    \/ PushLocal
    \/ \E rc \in Rcs : PushMkdir(rc)
    \/ \E rc \in Rcs : PushRsync(rc)
    \/ PushFinish
    \/ PullCommand
    \/ \E rc \in Rcs : PullLs(rc)
    \/ \E rc \in Rcs : PullRsync(rc)
    \/ PullFinish

Spec == Init /\ [][Next]_vars

(***************************************************************************)
(* init of dss (dss/cli.py 122-187) in working directory d                 *)
(***************************************************************************)
\* the variables of add, push and pull that init leaves alone
svars == <<disk, fs, pc, cmd, argv, remote_key, mem, files, idx, counts,
           manifest_updated, rejected, ops, outcomes, exitCode, announced,
           disk0, opened, fmt>>

\* remote_key.startswith("remote@")
IsRemoteKey(k) == k \in RemoteKeys

\* manifest_data[remote_key] = remote_config for each remote@ key of the file
RECURSIVE LoadRemotes(_, _, _)
LoadRemotes(m, cfg, i) ==
    IF i > Len(cfg.keys) THEN m
    ELSE LET k == cfg.keys[i]
         IN  LoadRemotes(
                 IF IsRemoteKey(k)
                 THEN [m EXCEPT !.topKeys = PutKey(m.topKeys, k),
                                !.remotes = [m.remotes EXCEPT ![k] = cfg.values[k]]]
                 ELSE m,
                 cfg, i + 1)

\* manifest_data as dss init writes it
DssManifest(cfg, fresh) ==
    LET empty == [NoManifest EXCEPT
                    !.exists = TRUE,
                    !.topKeys = <<"version", "manifest_uuid", "datasets">>,
                    !.manifest_uuid = fresh]
    IN  IF cfg.kind = "dict" THEN LoadRemotes(empty, cfg, 1) ELSE empty

\* the manifest is written over an existing one
InitRefused_never(m) == FALSE

\* manifest_path.exists(): init stops with exit code 1
InitRefused(m) == m.exists

DssInit(d) ==
    /\ clock < MaxCmds
    /\ clock' = clock + 1
    /\ IF InitRefused(dirs[d].manifest)
       THEN /\ inits' = Append(inits,
                  [NoInit EXCEPT !.tool = "dss",
                      !.dir = d,
                      !.exitCode = 1,
                      !.before = dirs[d]])
            /\ UNCHANGED <<dirs, nextUuid>>
       ELSE /\ dirs' = [dirs EXCEPT
                  ![d].manifest = SaveManifest(DssManifest(home, nextUuid)),
                  ![d].gitignore =
                      IF dirs[d].gitignore.exists THEN dirs[d].gitignore
                      ELSE [exists |-> TRUE, lines |-> <<"manifest.yml">>,
                            eol |-> TRUE]]
            /\ nextUuid' = nextUuid + 1
            /\ inits' = Append(inits,
                  [NoInit EXCEPT !.tool = "dss",
                      !.dir = d,
                      !.exitCode = 0,
                      !.uuid = nextUuid,
                      !.warned = (home.kind = "invalid"),
                      !.before = dirs[d]])
    /\ UNCHANGED <<home, svars>>

(***************************************************************************)
(* init of archive (archive/cli.py 134-192) in working directory d         *)
(***************************************************************************)
\* the base_path of the default file is kept as it is
RewriteBasePath_keep(base_path, fresh) == base_path

\* str(Path(remote_config["base_path"]) / str(uuid.uuid4())) + "/"
RewriteBasePath(base_path, fresh) ==
    PathJoin(base_path, ToString(fresh)) \o <<"/">>

\* the loop over the default file; a profile without base_path raises
\* KeyError, which ends the loop with the profiles cloned so far
RECURSIVE CloneRemotes(_, _, _, _, _)
CloneRemotes(m, cfg, refpath, fresh, i) ==
    IF i > Len(cfg.keys)
    THEN [manifest |-> m, next |-> fresh, failed |-> FALSE]
    ELSE LET k == cfg.keys[i]
             p == cfg.values[k]
             q == IF refpath # ""
                  THEN [p EXCEPT !.keys = PutKey(p.keys, "local_ref_path"),
                                 !.local_ref_path = refpath]
                  ELSE p
         IN  IF ~IsRemoteKey(k) THEN CloneRemotes(m, cfg, refpath, fresh, i + 1)
             ELSE IF ~InSeq("base_path", p.keys)
             THEN [manifest |-> m, next |-> fresh, failed |-> TRUE]
             ELSE CloneRemotes(
                      [m EXCEPT
                          !.topKeys = PutKey(m.topKeys, k),
                          !.remotes = [m.remotes EXCEPT ![k] =
                              [q EXCEPT !.base_path =
                                  RewriteBasePath(p.base_path, fresh)]]],
                      cfg, refpath, fresh + 1, i + 1)

\* manifest_data as archive init writes it, with the next unused uuid
ArchiveManifest(cfg, refpath, fresh) ==
    LET empty == [NoManifest EXCEPT !.exists = TRUE]
    IN  IF cfg.kind = "dict" THEN CloneRemotes(empty, cfg, refpath, fresh, 1)
        ELSE [manifest |-> empty, next |-> fresh,
              failed |-> (cfg.kind = "invalid")]

ArchiveInit(d, refpath) ==
    /\ clock < MaxCmds
    /\ clock' = clock + 1
    /\ IF InitRefused(dirs[d].archive)
       THEN /\ inits' = Append(inits,
                  [NoInit EXCEPT !.tool = "archive",
                      !.dir = d,
                      !.refpath = refpath,
                      !.exitCode = 1,
                      !.before = dirs[d]])
            /\ UNCHANGED <<dirs, nextUuid>>
       ELSE LET manifest_uuid == nextUuid
                made == ArchiveManifest(home, refpath, nextUuid + 1)
            IN  /\ dirs' = [dirs EXCEPT ![d].archive = SaveManifest(made.manifest)]
                /\ nextUuid' = made.next
                /\ inits' = Append(inits,
                  [NoInit EXCEPT !.tool = "archive",
                      !.dir = d,
                      !.refpath = refpath,
                      !.exitCode = 0,
                      !.uuid = manifest_uuid,
                      !.warned = made.failed,
                      !.before = dirs[d]])
    /\ UNCHANGED <<home, svars>>

\* init is run in directories holding any of the files, with any default file
InitStart ==
    /\ disk = NoManifest
    /\ fs = [n \in Names |-> NoFile]
    /\ pc = "idle"
    /\ cmd = "none"
    /\ argv = <<>>
    /\ remote_key = ""
    /\ mem = NoManifest
    /\ files = <<>>
    /\ idx = 1
    /\ counts = ZeroCounts
    /\ manifest_updated = FALSE
    /\ rejected = <<>>
    /\ ops = <<>>
    /\ outcomes = <<>>
    /\ exitCode = -1
    /\ announced = <<>>
    /\ nextUuid = 2
    /\ clock = 0
    /\ disk0 = NoManifest
    /\ opened = NoOpen
    /\ home \in Configs
    /\ dirs \in [Dirs -> DirStates]
    /\ inits = <<>>
    /\ fmt = NoFormat

InitNext ==
    \/ \E d \in Dirs : DssInit(d)
    \/ \E d \in Dirs, refpath \in RefPaths : ArchiveInit(d, refpath)

InitSpec == InitStart /\ [][InitNext]_vars

(***************************************************************************)
(* format_size called on its own (dss/cli.py 81-96)                        *)
(***************************************************************************)
Format ==
    /\ fmt.size_human = NoSize
    /\ fmt' = [fmt EXCEPT !.size_human = FormatDigits(fmt.size_bytes)]
    /\ UNCHANGED <<home, dirs, inits, disk, fs, pc, cmd, argv, remote_key, mem,
                   files, idx, counts, manifest_updated, rejected, ops,
                   outcomes, exitCode, announced, nextUuid, clock, disk0,
                   opened>>

SizeStart ==
    /\ disk = NoManifest
    /\ fs = [n \in Names |-> NoFile]
    /\ pc = "idle"
    /\ cmd = "none"
    /\ argv = <<>>
    /\ remote_key = ""
    /\ mem = NoManifest
    /\ files = <<>>
    /\ idx = 1
    /\ counts = ZeroCounts
    /\ manifest_updated = FALSE
    /\ rejected = <<>>
    /\ ops = <<>>
    /\ outcomes = <<>>
    /\ exitCode = -1
    /\ announced = <<>>
    /\ nextUuid = 2
    /\ clock = 0
    /\ disk0 = NoManifest
    /\ opened = NoOpen
    /\ home = NoConfig
    /\ dirs = [d \in Dirs |-> NoDir]
    /\ inits = <<>>
    /\ \E size_bytes \in Sizes : fmt = [NoFormat EXCEPT !.size_bytes = size_bytes]

SizeSpec == SizeStart /\ [][Format]_vars

(***************************************************************************)
(* archive push and pull (archive/cli.py 202-278 and 293-364): one rsync   *)
(* of the whole staging directory local_ref_path to or from the base_path  *)
(* of the profile, and ensure_gitignore (59-79).                           *)
(***************************************************************************)
\* str.strip(): s without the white space around it
Pads == {"", " "}
Unpadded == {"", "ref", "existing_content", "manifest.yml"}
strip(s) ==
    IF \E w \in Unpadded, l, r \in Pads : s = l \o w \o r
    THEN CHOOSE w \in Unpadded : \E l, r \in Pads : s = l \o w \o r
    ELSE s

\* the path is written whether or not a line holds it
ensure_gitignore_append(ig, local_ref_path) ==
    IF ig.exists
    THEN [ig EXCEPT !.lines = ig.lines \o
                        (IF ig.eol THEN <<"">> ELSE <<>>) \o <<strip(local_ref_path)>>,
                    !.eol = TRUE]
    ELSE [exists |-> TRUE, lines |-> <<strip(local_ref_path)>>, eol |-> TRUE]

\* .gitignore after ensure_gitignore(local_ref_path); file.write("\n<p>\n")
\* at the end of the file ends an unfinished last line or adds an empty one
ensure_gitignore(ig, local_ref_path) ==
    LET local_path_entry == strip(local_ref_path)
        lines == [i \in 1..Len(ig.lines) |-> strip(ig.lines[i])]
    IN  IF ig.exists
        THEN IF InSeq(local_path_entry, lines) THEN ig
             ELSE [ig EXCEPT !.lines = ig.lines \o
                                 (IF ig.eol THEN <<"">> ELSE <<>>)
                                 \o <<local_path_entry>>,
                             !.eol = TRUE]
        ELSE [exists |-> TRUE, lines |-> <<local_path_entry>>, eol |-> TRUE]

\* .gitignore files found in a working directory
RefIgnore == [exists |-> TRUE, lines |-> <<"ref">>, eol |-> TRUE]
PaddedIgnore ==
    [exists |-> TRUE, lines |-> <<"existing_content", " ref ">>, eol |-> FALSE]
TwiceIgnore ==
    [exists |-> TRUE, lines |-> <<"ref", "existing_content", "ref">>, eol |-> FALSE]
Ignores == {NoIgnore, OtherIgnore, RefIgnore, PaddedIgnore, TwiceIgnore}

\* archive.yml as archive init --refpath ref wrote it from a default file
\* with two profiles, the local_ref_path of the second since edited
RefArchive ==
    LET made == SaveManifest(ArchiveManifest(TwoConfig, "ref", 8).manifest)
    IN  [made EXCEPT !.remotes["remote@2"].local_ref_path = "ref ",
                     !.remotes["remote@2"].base_path = <<"/", "data", "/", "9">>]
\* profiles edited by hand: no staging directory; no url
PlainArchive ==
    [RefArchive EXCEPT !.remotes["remote@1"].local_ref_path = "",
                       !.remotes["remote@2"] = PartProfile]
Archives == {NoManifest, OldArchive, RefArchive, PlainArchive}
ArchiveDirStates == [manifest : {NoManifest}, archive : Archives, gitignore : Ignores]
Filenames == {"", "a"}              \* archive pull --filename

\* if not remote_base_path.endswith("/"): remote_base_path += "/"
EnsureSlash(path) ==
    IF path # <<>> /\ path[Len(path)] = "/" THEN path ELSE path \o <<"/">>

ArchiveOp(op, name, rc) ==
    [op |-> op, file |-> name, rc |-> rc,
     target |-> EnsureSlash(mem.remotes[remote_key].base_path)
                    \o (IF name = "" THEN <<>> ELSE <<name>>)]

\* the first check that makes archive push or pull exit with code 1, or "ok"
ArchiveError(m, rk) ==
    IF ~m.exists THEN "no_manifest"
    ELSE IF ~HasTop(m, rk) THEN "no_remote"
    ELSE IF ~ProfileComplete(m.remotes[rk]) THEN "incomplete_profile"
    ELSE IF ~InSeq("local_ref_path", m.remotes[rk].keys) THEN "key_error"
    ELSE "ok"

\* the variables archive push and pull leave alone
avars == <<disk, fs, files, idx, counts, manifest_updated, rejected, announced,
           nextUuid, disk0, opened, home, fmt>>

ArchiveStart(c, d, id, filename) ==
    /\ pc = "idle"
    /\ clock < MaxCmds
    /\ clock' = clock + 1
    /\ cmd' = c
    /\ argv' = <<filename>>
    /\ remote_key' = RemoteKey(id)
    /\ ops' = <<>>
    /\ outcomes' = <<>>
    /\ LET m == dirs[d].archive
           err == ArchiveError(m, RemoteKey(id))
           local_ref_path == m.remotes[RemoteKey(id)].local_ref_path
           run == [NoInit EXCEPT !.tool = c, !.dir = d, !.before = dirs[d]]
       IN  IF err # "ok"
           THEN /\ mem' = NoManifest
                /\ pc' = "done"
                /\ exitCode' = 1
                /\ inits' = Append(inits, [run EXCEPT !.exitCode = 1])
                /\ UNCHANGED dirs
           ELSE /\ mem' = m
                /\ pc' = IF c = "archive push" THEN "mkdir" ELSE "rsync"
                /\ exitCode' = -1
                /\ inits' = Append(inits, [run EXCEPT !.refpath = local_ref_path])
                /\ dirs' = IF local_ref_path # ""
                           THEN [dirs EXCEPT ![d].gitignore =
                                    ensure_gitignore(dirs[d].gitignore, local_ref_path)]
                           ELSE dirs
    /\ UNCHANGED avars

ArchivePush ==
    /\ pc = "idle"
    /\ \E d \in Dirs, id \in RemoteIds : ArchiveStart("archive push", d, id, "")

ArchivePull ==
    /\ pc = "idle"
    /\ \E d \in Dirs, id \in RemoteIds, filename \in Filenames :
          ArchiveStart("archive pull", d, id, filename)

\* the step after ssh mkdir -p: its result is overwritten, not looked at
ArchiveMkdirNext(rc) == "rsync"

ArchiveMkdir(rc) ==
    /\ pc = "mkdir"
    /\ ops' = Append(ops, ArchiveOp("mkdir", "", rc))
    /\ pc' = ArchiveMkdirNext(rc)
    /\ exitCode' = IF ArchiveMkdirNext(rc) = "done" THEN 0 ELSE exitCode
    /\ UNCHANGED <<cmd, argv, remote_key, mem, outcomes, clock, dirs, inits>>
    /\ UNCHANGED avars

ArchiveRsync(rc) ==
    /\ pc = "rsync"
    /\ ops' = Append(ops, ArchiveOp("rsync", argv[1], rc))
    /\ outcomes' = Append(outcomes,
                      Outcome(argv[1], IF rc = 0 THEN "copied" ELSE "transfer_failed"))
    /\ pc' = "done"
    /\ exitCode' = 0
    /\ UNCHANGED <<cmd, argv, remote_key, mem, clock, dirs, inits>>
    /\ UNCHANGED avars

\* archive push and pull are run in directories holding any of the files
ArchiveInitial ==
    /\ disk = NoManifest
    /\ fs = [n \in Names |-> NoFile]
    /\ pc = "idle"
    /\ cmd = "none"
    /\ argv = <<>>
    /\ remote_key = ""
    /\ mem = NoManifest
    /\ files = <<>>
    /\ idx = 1
    /\ counts = ZeroCounts
    /\ manifest_updated = FALSE
    /\ rejected = <<>>
    /\ ops = <<>>
    /\ outcomes = <<>>
    /\ exitCode = -1
    /\ announced = <<>>
    /\ nextUuid = 2
    /\ clock = 0
    /\ disk0 = NoManifest
    /\ opened = NoOpen
    /\ home = NoConfig
    /\ dirs \in [Dirs -> ArchiveDirStates]
    /\ dirs["d2"] \in {NoDir, [NoDir EXCEPT !.archive = RefArchive]}
    /\ inits = <<>>
    /\ fmt = NoFormat

ArchiveNext ==
    \/ ArchivePush
    \/ ArchivePull
    \/ \E rc \in Rcs : ArchiveMkdir(rc)
    \/ \E rc \in Rcs : ArchiveRsync(rc)
    \/ Return

ArchiveSpec == ArchiveInitial /\ [][ArchiveNext]_vars

(***************************************************************************)
(* Properties.  disk0 is the manifest as the invocation found it, mem the  *)
(* loaded copy it works on, disk the file as it is now.                    *)
(***************************************************************************)
OutcomeIdx == 1..Len(outcomes)
OpIdx == 1..Len(ops)
Syncing == cmd \in {"push", "pull"}
HasOutcome(name, result) ==
    \E i \in OutcomeIdx : outcomes[i] = Outcome(name, result)
HasOp(op, name, rc) ==
    \E i \in OpIdx : ops[i].op = op /\ ops[i].file = name /\ ops[i].rc = rc
PushFailures == {"local_missing", "remote_dir_failed", "transfer_failed"}
Recorded(e, name) ==
    SetRemotePath(e, remote_key, RelativePath(disk0.manifest_uuid, name))

\* C1: in push, the field remote@<id> of a dataset n is written (as
\* <manifest_id>/<n>) only if the rsync of n returned exit status 0 in this
\* invocation; a file whose outcome is local_missing, remote_dir_failed or
\* transfer_failed keeps its entry as it was, in memory and on disk.
C1_PushRecordsOnlyAfterTransfer ==
    cmd = "push" /\ mem.exists =>
        /\ \A n \in Names :
            /\ mem.ds[n] # disk0.ds[n] =>
                  /\ HasOp("rsync", n, 0)
                  /\ mem.ds[n] = Recorded(disk0.ds[n], n)
            /\ disk.ds[n] # disk0.ds[n] => disk.ds[n] = mem.ds[n]
        /\ \A i \in OutcomeIdx :
            outcomes[i].result \in PushFailures =>
                /\ mem.ds[outcomes[i].file] = disk0.ds[outcomes[i].file]
                /\ disk.ds[outcomes[i].file] = disk0.ds[outcomes[i].file]

\* a push that recorded one file on disk and failed on another
C1_Witness ==
    /\ cmd = "push" /\ pc = "done"
    /\ \E n, k \in Names :
        /\ HasOutcome(n, "pushed")
        /\ disk.ds[n].paths[remote_key] = RelativePath(disk0.manifest_uuid, n)
        /\ disk0.ds[n].paths[remote_key] = NoPath
        /\ HasOutcome(k, "transfer_failed")

\* C2: a per-file failure of push or pull (local file missing, remote
\* directory not created, transfer failed, remote file missing) does not end
\* the command: while it runs, every selected file before the current one has
\* its outcome and the exit code is unset; a file that got past the local
\* check has its own mkdir / ls, one that got past that its own rsync; when
\* all files ended in per-file failures or successes the command has
\* processed every selected file and exits with code 0.
C2_PerFileFailuresNotFatal ==
    Syncing /\ files # <<>> =>
        /\ pc # "done" => (exitCode = -1 /\ idx <= Len(files) + 1)
        /\ pc \in {"push_loop", "pull_loop"} => (Len(outcomes) = idx - 1)
        /\ \A i \in OutcomeIdx : outcomes[i].file = files[i]
        /\ \A i \in OutcomeIdx :
            LET o == outcomes[i] IN
            /\ cmd = "push" /\ o.result # "local_missing" =>
                  \E rc \in Rcs : HasOp("mkdir", o.file, rc)
            /\ cmd = "push" /\ o.result \in {"transfer_failed", "pushed"} =>
                  \E rc \in Rcs : HasOp("rsync", o.file, rc)
            /\ cmd = "pull" => \E rc \in Rcs : HasOp("ls", o.file, rc)
            /\ cmd = "pull" /\ o.result # "remote_missing" =>
                  \E rc \in Rcs : HasOp("rsync", o.file, rc)
        /\ pc = "done" /\ (\A i \in OutcomeIdx : outcomes[i].result # "io_error") =>
              /\ exitCode = 0
              /\ Len(outcomes) = Len(files)

\* a run whose first file failed and whose second file was transferred and
\* recorded, and one in which every file failed
C2_Witness ==
    /\ Syncing /\ pc = "done" /\ exitCode = 0
    /\ Len(outcomes) = 2
    /\ outcomes[1].result \in {"remote_dir_failed", "remote_missing"}
    /\ outcomes[2].result \in {"pushed", "verified"}
    /\ disk.ds[outcomes[2].file].paths[remote_key]
          = RelativePath(disk0.manifest_uuid, outcomes[2].file)
    /\ disk # disk0

C4_LsFailureMeansMissing ==
    cmd = "pull" =>
        /\ \A i \in OpIdx : ops[i].op = "ls" /\ ops[i].rc # 0 =>
            /\ ~(\E rc \in Rcs : HasOp("rsync", ops[i].file, rc))
            /\ HasOutcome(ops[i].file, "remote_missing")
            /\ mem.ds[ops[i].file] = disk0.ds[ops[i].file]
            /\ disk.ds[ops[i].file] = disk0.ds[ops[i].file]
            /\ i = Len(ops) => \/ (pc = "pull_loop" /\ exitCode = -1)
                               \/ (pc = "done" /\ exitCode = 0)
        /\ counts.missing
              = Cardinality({i \in OpIdx : ops[i].op = "ls" /\ ops[i].rc # 0})
        /\ counts.missing
              = Cardinality({i \in OutcomeIdx : outcomes[i].result = "remote_missing"})

\* a pull that found the first file missing and transferred the second
C4_Witness ==
    /\ cmd = "pull" /\ pc = "done"
    /\ Len(outcomes) = 2
    /\ outcomes[1].result = "remote_missing"
    /\ outcomes[2].result = "verified"
    /\ counts.missing = 1

C5_SyncFails ==
    \/ ~disk0.exists
    \/ ~InSeq(remote_key, disk0.topKeys)
    \/ \E k \in {"uname", "url", "base_path"} :
          ~InSeq(k, disk0.remotes[remote_key].keys)
    \/ ~InSeq("datasets", disk0.topKeys)
    \/ disk0.dsKeys = <<>>
    \/ (argv # <<>> /\ \A i \in 1..Len(argv) : ~InSeq(argv[i], disk0.dsKeys))

C5_AddFails ==
    \/ ~disk0.exists
    \/ \A i \in 1..Len(argv) : RejectReason(argv[i]) # "ok"

\* C5: a structural failure (no manifest file; for push and pull: profile
\* remote@<id> absent, one of uname, url, base_path missing in it, no
\* datasets, no selected file in the manifest; for add: no eligible
\* candidate) ends the command at once with exit code 1: no remote command
\* was run and the manifest file is as it was.
C5_StructuralFailureAborts ==
    (Syncing /\ C5_SyncFails) \/ (cmd = "add" /\ C5_AddFails) =>
        /\ pc = "done"
        /\ exitCode = 1
        /\ ops = <<>>
        /\ outcomes = <<>>
        /\ disk = disk0

\* a push to a remote whose profile lacks a required field
C5_Witness ==
    /\ cmd = "push" /\ pc = "done" /\ exitCode = 1
    /\ disk0.exists
    /\ InSeq(remote_key, disk0.topKeys)
    /\ ~InSeq("url", disk0.remotes[remote_key].keys)
    /\ disk0.dsKeys # <<>>

\* C6: push and pull run no remote command on a manifest without
\* manifest_uuid: they end with exit code 1 and leave the manifest file as it
\* was; whenever a remote command has been run the loaded manifest has an id.
C6_NoRemoteOpWithoutId ==
    Syncing =>
        /\ ~InSeq("manifest_uuid", disk0.topKeys) \/ disk0.manifest_uuid = 0 =>
              /\ ops = <<>>
              /\ pc = "done"
              /\ exitCode = 1
              /\ disk = disk0
        /\ ops # <<>> => mem.manifest_uuid # 0

\* a pull of a tracked file from a complete remote, refused for the missing id
C6_Witness ==
    /\ cmd = "pull" /\ pc = "done" /\ exitCode = 1
    /\ disk0 = LegacyManifest
    /\ argv = <<"a">>
    /\ remote_key = "remote@1"

\* C7: from a manifest without manifest_uuid, an add that ends with exit
\* code 0 has persisted the id it generated and announced, no second id is
\* ever generated or announced, and the per-file uuid of an entry is retained.
C7_IdPersistedExactlyOnce ==
    /\ cmd = "add" /\ pc = "done" /\ exitCode = 0 /\ NeedsUuid(disk0) =>
          /\ ~NeedsUuid(disk)
          /\ disk.manifest_uuid = announced[Len(announced)]
    /\ Len(announced) <= 1
    /\ \A n \in Names :
          InSeq(n, disk0.dsKeys) /\ InSeq("uuid", disk0.ds[n].keys) =>
              /\ InSeq("uuid", disk.ds[n].keys)
              /\ disk.ds[n].uuid = disk0.ds[n].uuid

C8_Tracked(n) ==
    /\ InSeq(n, disk0.dsKeys)
    /\ fs[n].kind = "file"
    /\ calculate_sha256(fs[n].content) = disk0.ds[n].sha256

\* C8: add of a file whose digest equals the digest stored in its entry is
\* classified unchanged and leaves the entry as it was, in memory and on
\* disk; an add in which every file is unchanged does not write the
\* manifest, so the file on disk stays identical however often it is run.
C8_AddIdempotent ==
    cmd = "add" /\ mem.exists =>
        /\ \A n \in Names : C8_Tracked(n) =>
            /\ \A i \in OutcomeIdx :
                  outcomes[i].file = n => outcomes[i].result = "unchanged"
            /\ mem.ds[n] = disk0.ds[n]
            /\ disk.ds[n] = disk0.ds[n]
        /\ (\A i \in OutcomeIdx : outcomes[i].result = "unchanged") => disk = disk0

\* the second of two adds of the same file: the entry written by the first
\* add is found unchanged
C8_Witness ==
    /\ cmd = "add" /\ pc = "done" /\ exitCode = 0
    /\ \E n \in Names :
        /\ outcomes = <<Outcome(n, "unchanged")>>
        /\ disk0.ds[n].uploaded = 1
        /\ clock = 2
        /\ disk = disk0

C9_Changed(n) == \E i \in OutcomeIdx : outcomes[i] = Outcome(n, "updated")

\* C9: add of a file whose entry holds another digest overwrites sha256,
\* size_bytes, size_human and uploaded of that entry and nothing else: the
\* other fields present (description, a legacy uuid, remote@<id> paths) keep
\* their values and no field is dropped; an entry of a file that was not
\* added or updated in this invocation is as it was.
C9_UpdateOverwritesFourFields ==
    cmd = "add" /\ mem.exists =>
        \A n \in Names :
            LET e0 == disk0.ds[n]
                e == mem.ds[n]
            IN  /\ C9_Changed(n) =>
                    /\ e.sha256 = calculate_sha256(fs[n].content)
                    /\ e.size_bytes = SizeTable[fs[n].content]
                    /\ e.size_human = format_size(SizeTable[fs[n].content])
                    /\ e.uploaded = clock
                    /\ e.sha256 # e0.sha256
                    /\ e.description = e0.description
                    /\ e.uuid = e0.uuid
                    /\ e.paths = e0.paths
                    /\ \A k \in {"description", "uuid"} \cup RemoteKeys :
                          InSeq(k, e.keys) <=> InSeq(k, e0.keys)
                    /\ \A k \in {"sha256", "size_bytes", "size_human", "uploaded"} :
                          InSeq(k, e.keys)
                    /\ pc = "done" /\ exitCode = 0 => disk.ds[n] = e
                /\ ~C9_Changed(n) /\ ~HasOutcome(n, "added") =>
                    /\ e = e0
                    /\ disk.ds[n] = e0

\* an entry with a description and a remote path, updated and saved
C9_Witness ==
    /\ cmd = "add" /\ pc = "done" /\ exitCode = 0
    /\ \E n \in Names :
        /\ C9_Changed(n)
        /\ disk0.ds[n].paths["remote@1"] # NoPath
        /\ disk0.ds[n].description # ""
        /\ disk.ds[n].paths = disk0.ds[n].paths
        /\ disk.ds[n].uploaded # disk0.ds[n].uploaded

FirstFailing(checks) ==
    IF \A i \in 1..Len(checks) : ~checks[i].fails THEN "ok"
    ELSE checks[CHOOSE i \in 1..Len(checks) :
                  checks[i].fails /\ \A j \in 1..(i - 1) : ~checks[j].fails].reason

Check(reason, fails) == [reason |-> reason, fails |-> fails]

C10_FiveChecks(c) ==
    << Check("not_found", KindOf(c) = "absent"),
       Check("is_directory", KindOf(c) = "dir"),
       Check("hidden", c.name \in HiddenNames),
       Check("is_manifest", c.name = "manifest.yml"),
       Check("wrong_directory", ~c.here) >>

C10_SixChecks(c) ==
    << Check("not_found", KindOf(c) = "absent"),
       Check("is_directory", KindOf(c) = "dir"),
       Check("hidden", c.name \in HiddenNames),
       Check("not_regular", KindOf(c) \notin {"file", "locked"}),
       Check("is_manifest", c.name = "manifest.yml"),
       Check("wrong_directory", ~c.here) >>

\* C10, as claimed: the filter makes five checks in the order not_found,
\* is_directory, hidden, is_manifest, wrong_directory; a candidate is
\* rejected for the first of them it fails, and only candidates failing none
\* are kept.
C10_FiveCheckOrder ==
    cmd = "add" /\ disk0.exists =>
        /\ \A i \in 1..Len(argv) :
            FirstFailing(C10_FiveChecks(argv[i])) # "ok" =>
                InSeq([cand |-> argv[i],
                       reason |-> FirstFailing(C10_FiveChecks(argv[i]))], rejected)
        /\ \A i \in 1..Len(files) :
            \E j \in 1..Len(argv) :
                /\ argv[j].name = files[i]
                /\ FirstFailing(C10_FiveChecks(argv[j])) = "ok"

C10_Kept == SelectSeq(argv, LAMBDA c : FirstFailing(C10_SixChecks(c)) = "ok")
C10_Skipped == SelectSeq(argv, LAMBDA c : FirstFailing(C10_SixChecks(c)) # "ok")

\* C10, as amended: the filter makes six checks in the order not_found,
\* is_directory, hidden, not_regular, is_manifest, wrong_directory; every
\* candidate is rejected for the first check it fails, the kept candidates are
\* those failing none, in command-line order, and only they are hashed and
\* can enter or change the manifest.
C10_SixCheckOrder ==
    cmd = "add" /\ disk0.exists =>
        /\ Len(rejected) = Len(C10_Skipped)
        /\ \A i \in 1..Len(rejected) :
            /\ rejected[i].cand = C10_Skipped[i]
            /\ rejected[i].reason = FirstFailing(C10_SixChecks(C10_Skipped[i]))
        /\ Len(files) = Len(C10_Kept)
        /\ \A i \in 1..Len(files) : files[i] = C10_Kept[i].name
        /\ \A i \in OutcomeIdx : outcomes[i].file = files[i]
        /\ mem.exists =>
              \A n \in Names :
                  mem.ds[n] # disk0.ds[n] \/ disk.ds[n] # disk0.ds[n] =>
                      InSeq(n, files)

\* a missing hidden file is rejected as not_found, a special file named
\* manifest.yml as not_regular, while a regular file is kept and added
C10_Witness ==
    /\ cmd = "add" /\ pc = "done" /\ exitCode = 0
    /\ \E i \in 1..Len(rejected) :
          \/ rejected[i] = [cand |-> Cand(".h", TRUE, "absent"), reason |-> "not_found"]
          \/ rejected[i] = [cand |-> Cand("manifest.yml", FALSE, "special"),
                            reason |-> "not_regular"]
    /\ \E n \in Names : HasOutcome(n, "added") /\ InSeq(n, disk.dsKeys)

C11_Tracked(n) == InSeq(n, disk0.dsKeys)
C11_Selection ==
    IF argv # <<>> THEN SelectSeq(argv, C11_Tracked) ELSE disk0.dsKeys

\* C11: in push and pull, with names on the command line the selected files
\* are the given names that are dataset keys of the manifest, in the order
\* given; with no names they are all dataset keys, in manifest order.  A name
\* that is not in the manifest gets no remote command and no outcome, and no
\* entry outside the selection changes; a command that ends with exit code 0
\* has processed the whole selection.
C11_SelectionIsGivenAndTracked ==
    Syncing =>
        /\ files # <<>> => files = C11_Selection
        /\ files = <<>> => ops = <<>> /\ outcomes = <<>> /\ disk = disk0
        /\ \A i \in OpIdx : InSeq(ops[i].file, C11_Selection)
        /\ \A i \in OutcomeIdx : InSeq(outcomes[i].file, C11_Selection)
        /\ \A i \in 1..Len(argv) : ~C11_Tracked(argv[i]) =>
              /\ ~(\E j \in OpIdx : ops[j].file = argv[i])
              /\ ~(\E j \in OutcomeIdx : outcomes[j].file = argv[i])
        /\ disk.dsKeys = disk0.dsKeys
        /\ \A n \in Names : ~InSeq(n, C11_Selection) =>
              /\ disk.ds[n] = disk0.ds[n]
              /\ mem.exists => mem.ds[n] = disk0.ds[n]
        /\ pc = "done" /\ exitCode = 0 =>
              /\ Len(outcomes) = Len(C11_Selection)
              /\ \A i \in OutcomeIdx : outcomes[i].file = C11_Selection[i]

\* a push of an unknown name and one of two tracked files: only the tracked
\* file named is transferred and recorded
C11_Witness ==
    /\ cmd = "push" /\ pc = "done" /\ exitCode = 0
    /\ argv = <<"zz", "a">>
    /\ disk0.dsKeys = <<"b", "a">>
    /\ outcomes = <<Outcome("a", "pushed")>>
    /\ disk.ds["b"] = disk0.ds["b"]

\* a pull without names takes every dataset, in manifest order
C11_WitnessAll ==
    /\ cmd = "pull" /\ pc = "done" /\ argv = <<>>
    /\ files = <<"b", "a">>
    /\ Len(outcomes) = 2
\* C12: once manifest.yml holds a manifest_uuid, no step of add, push or pull
\* (ending with exit code 0 or 1, with or without per-file failures) removes
\* the key or changes its value.
C12_ManifestIdStable ==
    [][HasTop(disk, "manifest_uuid") =>
          /\ HasTop(disk', "manifest_uuid")
          /\ disk'.manifest_uuid = disk.manifest_uuid]_vars

\* the id generated and saved by an add is still there after a push that
\* rewrote the manifest
C12_Witness ==
    /\ cmd = "push" /\ pc = "done" /\ exitCode = 0
    /\ disk # disk0
    /\ announced # <<>>
    /\ disk0.manifest_uuid = announced[1]
    /\ HasTop(disk, "manifest_uuid")
    /\ disk.manifest_uuid = announced[1]
\* C13: no step of add, push or pull removes a dataset from manifest.yml:
\* every dataset name in the file before a step is in the file after it.
C13_NoEntryDeleted ==
    [][\A n \in Names : InSeq(n, Datasets(disk)) => InSeq(n, Datasets(disk'))]_vars

\* two commands that both rewrote a manifest: an add that brought a second
\* dataset, then a push; the dataset the manifest started with is still there
C13_Witness ==
    /\ cmd = "push" /\ pc = "done" /\ disk # disk0
    /\ clock = 2
    /\ Len(disk.dsKeys) = 2
    /\ disk.ds[disk.dsKeys[2]].uploaded = 1
    /\ disk.ds[disk.dsKeys[1]].uploaded = 0
\* base_path without its trailing separators
C14_Base(base_path) ==
    LET last == {k \in 1..Len(base_path) : base_path[k] # "/"}
    IN  IF last = {} THEN <<>>
        ELSE SubSeq(base_path, 1, CHOOSE k \in last : \A j \in last : j <= k)

C14_Dir == C14_Base(disk0.remotes[remote_key].base_path)
               \o <<"/", ToString(disk0.manifest_uuid)>>

\* C14: every remote command of push and of pull names the same location:
\* mkdir names <base_path>/<manifest_uuid>, where trailing separators of
\* base_path do not count, ls and rsync name that directory followed by
\* /<dataset name>; the path recorded in an entry is
\* <manifest_uuid>/<dataset name>.
C14_SameRemoteLocation ==
    Syncing =>
        /\ \A i \in OpIdx :
              /\ ops[i].op = "mkdir" => ops[i].target = C14_Dir
              /\ ops[i].op \in {"ls", "rsync"} =>
                    ops[i].target = C14_Dir \o <<"/", ops[i].file>>
        /\ mem.exists =>
              \A n \in Names :
                  mem.ds[n].paths[remote_key] # disk0.ds[n].paths[remote_key] =>
                      mem.ds[n].paths[remote_key]
                          = <<ToString(disk0.manifest_uuid), "/", n>>

\* a pull from the profile whose base_path ends with a separator, of a file
\* that the push before it put there
C14_Witness ==
    /\ cmd = "pull" /\ pc = "done" /\ clock = 2
    /\ remote_key = "remote@2"
    /\ disk0.remotes[remote_key].base_path = <<"/", "data", "/", "test", "/">>
    /\ disk0.ds["a"].paths[remote_key] = <<"1", "/", "a">>
    /\ \E i \in OpIdx :
          /\ ops[i].op = "rsync" /\ ops[i].file = "a" /\ ops[i].rc = 0
          /\ ops[i].target = <<"/", "data", "/", "test", "/", "1", "/", "a">>
\* the position of a selected file in the file loop
C20_Pos(n) == CHOOSE i \in 1..Len(files) : files[i] = n

\* C20: push handles the selected files one after the other, each by the
\* steps local check, mkdir, rsync, a step being made only if the steps
\* before it succeeded: the remote commands run so far are, file by file in
\* the order of the selection, one mkdir and, only right after a mkdir of
\* the same file that returned 0, one rsync; a file missing locally gets no
\* remote command; the commands of a file all come before those of the next.
C20_PushStepOrder ==
    cmd = "push" =>
        /\ \A i \in OpIdx :
              /\ InSeq(ops[i].file, files)
              /\ PathExists(Lookup(ops[i].file).kind)
              /\ ops[i].op \in {"mkdir", "rsync"}
              /\ ops[i].op = "rsync" =>
                    /\ i > 1
                    /\ ops[i - 1].op = "mkdir"
                    /\ ops[i - 1].file = ops[i].file
                    /\ ops[i - 1].rc = 0
              /\ ops[i].op = "mkdir" /\ i > 1 => ops[i - 1].file # ops[i].file
              /\ ops[i].op = "mkdir" /\ ops[i].rc = 0 /\ i = Len(ops) =>
                    pc = "push_rsync" /\ files[idx] = ops[i].file
        /\ \A i, j \in OpIdx :
              /\ i < j => C20_Pos(ops[i].file) <= C20_Pos(ops[j].file)
              /\ i # j /\ ops[i].file = ops[j].file => ops[i].op # ops[j].op
        /\ \A i \in OpIdx : C20_Pos(ops[i].file) <= idx
        /\ \A i \in OutcomeIdx :
              /\ outcomes[i].result = "local_missing" =>
                    ~(\E j \in OpIdx : ops[j].file = outcomes[i].file)
              /\ outcomes[i].result = "remote_dir_failed" =>
                    /\ \E j \in OpIdx : ops[j] = RemoteOp("mkdir", outcomes[i].file, 1)
                    /\ ~(\E j \in OpIdx : ops[j].file = outcomes[i].file
                                            /\ ops[j].op = "rsync")

\* a push of two files: the mkdir of the first failed and no rsync followed,
\* the second was created and transferred after it
C20_Witness ==
    /\ cmd = "push" /\ pc = "done"
    /\ Len(files) = 2
    /\ Len(ops) = 3
    /\ ops[1].op = "mkdir" /\ ops[1].file = files[1] /\ ops[1].rc # 0
    /\ ops[2].op = "mkdir" /\ ops[2].file = files[2] /\ ops[2].rc = 0
    /\ ops[3].op = "rsync" /\ ops[3].file = files[2] /\ ops[3].rc = 0

\* the rsync commands of this invocation that returned exit status 0
C21_Copied == {i \in OpIdx : ops[i].op = "rsync" /\ ops[i].rc = 0}

\* C21, as claimed: in pull, every rsync that returned exit status 0 has set
\* the field remote@<id> of its dataset to <manifest_id>/<name> and marked the
\* manifest for saving, so that the command ends with that field saved.
C21_ExitStatusAloneRecords ==
    cmd = "pull" =>
        \A i \in C21_Copied :
            /\ mem.ds[ops[i].file].paths[remote_key]
                  = RelativePath(disk0.manifest_uuid, ops[i].file)
            /\ manifest_updated
            /\ pc = "done" =>
                  disk.ds[ops[i].file].paths[remote_key]
                      = RelativePath(disk0.manifest_uuid, ops[i].file)

\* C21, as amended: in pull, every rsync that returned exit status 0 and
\* left a readable local file has set the field remote@<id> of its dataset to
\* <manifest_id>/<name> and marked the manifest for saving, whether the
\* digest of the file matched the stored one or not, and the field is saved
\* when the command ends with exit code 0; an rsync that returned 0 and left
\* no local file, or one that returned a non-zero status, leaves the entry as
\* it was.
C21_CompletedTransferRecorded ==
    cmd = "pull" =>
        \A i \in OpIdx : ops[i].op = "rsync" =>
            LET n == ops[i].file
                path == RelativePath(disk0.manifest_uuid, n)
            IN  /\ ops[i].rc = 0 /\ fs[n].kind = "file" =>
                      /\ \/ HasOutcome(n, "verified")
                         \/ HasOutcome(n, "integrity_mismatch")
                      /\ HasOutcome(n, "verified") <=>
                            calculate_sha256(fs[n].content) = disk0.ds[n].sha256
                      /\ mem.ds[n] = SetRemotePath(disk0.ds[n], remote_key, path)
                      /\ manifest_updated
                      /\ pc = "done" /\ exitCode = 0 => disk.ds[n] = mem.ds[n]
                /\ ops[i].rc = 0 /\ fs[n].kind = "absent" =>
                      /\ HasOutcome(n, "not_found_locally")
                      /\ mem.ds[n] = disk0.ds[n]
                      /\ disk.ds[n] = disk0.ds[n]
                /\ ops[i].rc # 0 =>
                      /\ HasOutcome(n, "transfer_failed")
                      /\ mem.ds[n] = disk0.ds[n]
                      /\ disk.ds[n] = disk0.ds[n]

\* a pull of two files, both copied with exit status 0: one matches its
\* digest, the other does not, and both paths are recorded and saved
C21_Witness ==
    /\ cmd = "pull" /\ pc = "done" /\ exitCode = 0
    /\ Cardinality(C21_Copied) = 2
    /\ \E n, k \in Names :
        /\ HasOutcome(n, "verified") /\ HasOutcome(k, "integrity_mismatch")
        /\ \A h \in {n, k} :
              /\ disk0.ds[h].paths[remote_key] = NoPath
              /\ disk.ds[h].paths[remote_key] = RelativePath(disk0.manifest_uuid, h)

\* the names add has put into a bucket so far
C22_Bucket(result) ==
    {outcomes[i].file : i \in {j \in OutcomeIdx : outcomes[j].result = result}}

\* C22, as claimed: add classifies an eligible candidate as added when its
\* name is not in datasets, as updated when it is there with another digest,
\* as unchanged when it is there with the same digest; whatever the candidate
\* list, the names added, the names updated and the names unchanged in one
\* invocation are pairwise disjoint.
C22_BucketsDisjoint ==
    cmd = "add" /\ mem.exists =>
        /\ C22_Bucket("added") \cap C22_Bucket("updated") = {}
        /\ C22_Bucket("added") \cap C22_Bucket("unchanged") = {}
        /\ C22_Bucket("updated") \cap C22_Bucket("unchanged") = {}
        /\ \A n \in C22_Bucket("added") : ~InSeq(n, disk0.dsKeys)
        /\ \A n \in C22_Bucket("updated") :
              /\ InSeq(n, disk0.dsKeys)
              /\ calculate_sha256(fs[n].content) # disk0.ds[n].sha256
        /\ \A n \in C22_Bucket("unchanged") :
              /\ InSeq(n, disk0.dsKeys)
              /\ calculate_sha256(fs[n].content) = disk0.ds[n].sha256

\* the i-th eligible candidate names a file named by none before it
C22_First(i) == \A j \in 1..(i - 1) : files[j] # files[i]
\* the bucket of a file classified against the manifest as it was loaded
C22_Expected(n) ==
    IF ~InSeq(n, disk0.dsKeys) THEN "added"
    ELSE IF calculate_sha256(fs[n].content) # disk0.ds[n].sha256 THEN "updated"
    ELSE "unchanged"
C22_Eligible == SelectSeq(argv, LAMBDA c : RejectReason(c) = "ok")

\* C22, as amended: add classifies every eligible candidate, once per
\* occurrence on the command line, into exactly one of added (name not in
\* datasets), updated (there with another digest) and unchanged (there with
\* the same digest), against the manifest as the candidates before it left
\* it: the first occurrence of a name is classified against the loaded
\* manifest, a later occurrence of the same name is unchanged.  For a
\* candidate list that names no file twice the names added, updated and
\* unchanged are pairwise disjoint.
C22_OneBucketPerCandidate ==
    cmd = "add" /\ mem.exists =>
        /\ Len(files) = Len(C22_Eligible)
        /\ \A i \in 1..Len(files) : files[i] = C22_Eligible[i].name
        /\ \A i \in OutcomeIdx :
              /\ outcomes[i].file = files[i]
              /\ outcomes[i].result # "io_error" =>
                    outcomes[i].result =
                        IF C22_First(i) THEN C22_Expected(files[i]) ELSE "unchanged"
        /\ pc = "done" /\ exitCode = 0 => Len(outcomes) = Len(files)
        /\ (\A i \in 1..Len(files) : C22_First(i)) =>
              /\ C22_Bucket("added") \cap C22_Bucket("updated") = {}
              /\ C22_Bucket("added") \cap C22_Bucket("unchanged") = {}
              /\ C22_Bucket("updated") \cap C22_Bucket("unchanged") = {}

\* an add that names a new file twice: added, then unchanged; and an add of
\* two files, one updated and one unchanged
C22_Witness ==
    /\ cmd = "add" /\ pc = "done" /\ exitCode = 0
    /\ \E n \in Names :
          outcomes = <<Outcome(n, "added"), Outcome(n, "unchanged")>>

C22_WitnessDistinct ==
    /\ cmd = "add" /\ pc = "done" /\ exitCode = 0
    /\ \E n, k \in Names :
          /\ n # k
          /\ outcomes = <<Outcome(n, "updated"), Outcome(k, "unchanged")>>

\* the manifest is dirty: the remote path of some file was set
C23_Dirty ==
    \E i \in OutcomeIdx :
        outcomes[i].result \in {"pushed", "verified", "integrity_mismatch"}
C23_Changed ==
    \E i \in OutcomeIdx : outcomes[i].result \in {"added", "updated"}
\* the manifest is read once, before the first file, never again; it is
\* written at most once, when every file has had its turn
C23_OnePass ==
    /\ opened.r <= 1
    /\ opened.w <= 1
    /\ files # <<>> => opened.r = 1
    /\ opened.w = 1 =>
          /\ opened.r = 1
          /\ pc = "done"
          /\ Len(outcomes) = Len(files)
    /\ disk # disk0 => opened.w = 1
    /\ Syncing => (manifest_updated <=> C23_Dirty)

\* C23, as claimed: an add, push or pull invocation loads the manifest once
\* and writes it at most once, after all its per-file operations; a push or
\* pull that has ended has written it iff the manifest is dirty, an add that
\* has ended iff a file was added or updated.
C23_WritesIffDirty ==
    cmd \in {"add", "push", "pull"} =>
        /\ C23_OnePass
        /\ pc = "done" /\ Syncing => (opened.w = 1 <=> C23_Dirty)
        /\ pc = "done" /\ cmd = "add" => (opened.w = 1 <=> C23_Changed)

\* C23, as amended: an add, push or pull invocation loads the manifest once
\* and writes it at most once, after all its per-file operations; a push or
\* pull that ends with exit code 0 has written it iff the manifest is dirty,
\* an add that ends with exit code 0 iff a file was added or updated; an
\* invocation that ends with exit code 1 has not written it, dirty or not.
C23_WritesOnceAtEnd ==
    cmd \in {"add", "push", "pull"} =>
        /\ C23_OnePass
        /\ pc = "done" /\ exitCode = 0 /\ Syncing => (opened.w = 1 <=> C23_Dirty)
        /\ pc = "done" /\ exitCode = 0 /\ cmd = "add" =>
              (opened.w = 1 <=> C23_Changed)
        /\ pc = "done" /\ exitCode = 1 => opened.w = 0 /\ disk = disk0

\* a push of two files, both recorded, that wrote the manifest once
C23_Witness ==
    /\ cmd = "push" /\ pc = "done" /\ exitCode = 0
    /\ Len(files) = 2
    /\ outcomes = <<Outcome(files[1], "pushed"), Outcome(files[2], "pushed")>>
    /\ opened = [r |-> 1, w |-> 1]
    /\ disk # disk0

\* a pull that recorded the path of its first file and stopped with exit
\* code 1 on the second, which it could not read: nothing was written
C23_WitnessAbort ==
    /\ cmd = "pull" /\ pc = "done" /\ exitCode = 1
    /\ Len(outcomes) = 2
    /\ outcomes[1].result = "verified"
    /\ outcomes[2].result = "io_error"
    /\ manifest_updated
    /\ opened = [r |-> 1, w |-> 0]

\* the number of files of this invocation that ended with the given outcome
C24_Ended(result) ==
    Cardinality({i \in OutcomeIdx : outcomes[i].result = result})
C24_Sum ==
    counts.added + counts.updated + counts.unchanged + counts.pulled
        + counts.missing
\* every counter is the number of files with the outcome it stands for
C24_CountersMatch ==
    /\ cmd = "add" =>
          /\ counts.added = C24_Ended("added")
          /\ counts.updated = C24_Ended("updated")
          /\ counts.unchanged = C24_Ended("unchanged")
          /\ counts.pulled = 0 /\ counts.missing = 0
    /\ cmd = "pull" =>
          /\ counts.pulled = C24_Ended("integrity_mismatch")
          /\ counts.unchanged = C24_Ended("verified")
          /\ counts.missing = C24_Ended("remote_missing")
          /\ counts.added = 0 /\ counts.updated = 0

\* C24, as claimed: every eligible file of an add and every selected file of
\* a pull that has been processed is counted in exactly one summary counter,
\* the one of its outcome (add: added, updated, unchanged; pull: changed,
\* unchanged, missing): the counters sum to the number of files processed.
C24_CountersSumToProcessed ==
    cmd \in {"add", "pull"} =>
        /\ C24_CountersMatch
        /\ C24_Sum = Len(outcomes) - C24_Ended("io_error")

\* C24, as amended: every counter is the number of files with its outcome
\* (add: added, updated, unchanged; pull: changed for a digest mismatch,
\* unchanged for a verified file, missing for a file not on the remote).  In
\* add the counters sum to the number of files classified.  In pull a file
\* whose transfer failed, or that is not found locally after a transfer with
\* exit status 0, is counted nowhere: the counters sum to the number of files
\* processed less those.
C24_CountersFollowOutcomes ==
    cmd \in {"add", "pull"} =>
        /\ C24_CountersMatch
        /\ C24_Sum = Len(outcomes) - C24_Ended("io_error")
                        - C24_Ended("transfer_failed")
                        - C24_Ended("not_found_locally")
        /\ cmd = "add" =>
              C24_Ended("transfer_failed") + C24_Ended("not_found_locally") = 0

\* a pull of two files: one missing on the remote, one whose transfer
\* failed; the summary counts one file
C24_Witness ==
    /\ cmd = "pull" /\ pc = "done" /\ exitCode = 0
    /\ Len(outcomes) = 2
    /\ HasOutcome(files[1], "remote_missing")
    /\ HasOutcome(files[2], "transfer_failed")
    /\ counts = [ZeroCounts EXCEPT !.missing = 1]

\* an add of two files, one added and one unchanged
C24_WitnessAdd ==
    /\ cmd = "add" /\ pc = "done" /\ exitCode = 0
    /\ Len(outcomes) = 2
    /\ counts = [ZeroCounts EXCEPT !.added = 1, !.unchanged = 1]

\* the entry e0 with nothing changed but the field remote_key
C28_OnlyPath(e, e0) ==
    /\ e.sha256 = e0.sha256
    /\ e.size_bytes = e0.size_bytes
    /\ e.size_human = e0.size_human
    /\ e.uploaded = e0.uploaded
    /\ e.description = e0.description
    /\ e.uuid = e0.uuid
    /\ \A r \in RemoteKeys \ {remote_key} : e.paths[r] = e0.paths[r]
    /\ \A k \in {"sha256", "size_bytes", "size_human", "uploaded",
                 "description", "uuid"} \cup (RemoteKeys \ {remote_key}) :
          InSeq(k, e.keys) <=> InSeq(k, e0.keys)
C28_Frame(m) ==
    /\ m.manifest_uuid = disk0.manifest_uuid
    /\ m.topKeys = disk0.topKeys
    /\ m.remotes = disk0.remotes
    /\ m.dsKeys = disk0.dsKeys
    /\ \A n \in Names :
          /\ C28_OnlyPath(m.ds[n], disk0.ds[n])
          /\ m.ds[n] # disk0.ds[n] =>
                /\ InSeq(n, files)
                /\ HasOp("rsync", n, 0)
                /\ m.ds[n].paths[remote_key] = RelativePath(disk0.manifest_uuid, n)
          /\ \/ ~InSeq(n, files)
             \/ \E i \in OutcomeIdx :
                   /\ outcomes[i].file = n
                   /\ outcomes[i].result \notin {"pushed", "verified",
                                                 "integrity_mismatch"}
             => m.ds[n] = disk0.ds[n]

\* C28: a push or pull for remote@X changes nothing in the manifest, loaded
\* or on disk, but the field remote@X of the entries of files whose transfer
\* succeeded in this invocation: digest, size, timestamp, description and
\* the paths of other remotes of every entry, the entries of files not
\* selected or failed, manifest_uuid, the keys and the remote profiles are
\* as the invocation found them.
C28_SyncFrame ==
    Syncing =>
        /\ mem.exists => C28_Frame(mem)
        /\ disk.exists => C28_Frame(disk)
        /\ disk.exists = disk0.exists

\* a push to remote@2 that recorded b and failed on a: b keeps its path on
\* remote@1 and its timestamp, a is as it was
C28_Witness ==
    /\ cmd = "push" /\ pc = "done" /\ exitCode = 0
    /\ remote_key = "remote@2"
    /\ HasOutcome("b", "pushed") /\ HasOutcome("a", "transfer_failed")
    /\ disk0.ds["b"].paths["remote@1"] # NoPath
    /\ disk.ds["b"].paths["remote@1"] = disk0.ds["b"].paths["remote@1"]
    /\ disk.ds["b"].paths["remote@2"] # NoPath
    /\ disk0.ds["b"].paths["remote@2"] = NoPath
    /\ disk.ds["a"] = disk0.ds["a"]

\* C29: an add that stops with exit code 1 while it works through its
\* files (an eligible file that cannot be read when it is hashed) leaves
\* manifest.yml exactly as the command found it: what it had decided for the
\* files before, and a manifest_uuid generated and announced in this run, are
\* in the loaded manifest only.
C29_AbortedAddWritesNothing ==
    cmd = "add" /\ exitCode = 1 =>
        /\ pc = "done"
        /\ disk = disk0
        /\ opened.w = 0
        /\ NeedsUuid(disk0) => NeedsUuid(disk)
        /\ \A i \in OutcomeIdx :
              outcomes[i].result \in {"added", "updated"} =>
                  /\ mem.ds[outcomes[i].file] # disk0.ds[outcomes[i].file]
                  /\ disk.ds[outcomes[i].file] = disk0.ds[outcomes[i].file]

\* an add to a manifest without manifest_uuid that announced a new id, added
\* or updated its first file and stopped on the second, which it cannot read
C29_Witness ==
    /\ cmd = "add" /\ pc = "done" /\ exitCode = 1
    /\ Len(outcomes) = 2
    /\ outcomes[1].result \in {"added", "updated"}
    /\ outcomes[2].result = "io_error"
    /\ NeedsUuid(disk0)
    /\ announced # <<>>
    /\ mem.manifest_uuid = announced[Len(announced)]
    /\ disk = disk0

\* the exit status of the remote command op run for file n, -1 if none
C30_Rc(op, n) ==
    IF \E i \in OpIdx : ops[i].op = op /\ ops[i].file = n
    THEN ops[CHOOSE i \in OpIdx : ops[i].op = op /\ ops[i].file = n].rc
    ELSE -1
\* the outcome of file n told from its existence and the exit statuses alone
C30_Outcome(n) ==
    IF ~PathExists(Lookup(n).kind) THEN "local_missing"
    ELSE IF C30_Rc("mkdir", n) # 0 THEN "remote_dir_failed"
    ELSE IF C30_Rc("rsync", n) # 0 THEN "transfer_failed"
    ELSE "pushed"
\* the entries told from the outcomes alone
C30_Entries ==
    [n \in Names |->
        IF HasOutcome(n, "pushed")
        THEN SetRemotePath(disk0.ds[n], remote_key,
                           RelativePath(disk0.manifest_uuid, n))
        ELSE disk0.ds[n]]

\* C30: the outcome of every file of a push, and the manifest the push
\* leaves, are determined by the existence of the local file and by the exit
\* statuses of mkdir and rsync; the content of the file and the digest in
\* its entry play no part, so two runs that differ in the contents of
\* existing files only, with the same exit statuses, end alike, and a file
\* whose content no longer has the recorded digest is pushed and recorded
\* like any other.
C30_PushIgnoresContent ==
    cmd = "push" /\ mem.exists =>
        /\ \A i \in OutcomeIdx :
              /\ outcomes[i].file = files[i]
              /\ outcomes[i].result = C30_Outcome(files[i])
        /\ mem = [disk0 EXCEPT !.ds = C30_Entries]
        /\ pc = "done" =>
              /\ exitCode = 0
              /\ Len(outcomes) = Len(files)
              /\ disk = [disk0 EXCEPT !.ds = C30_Entries]

\* a push that recorded the remote path of a file whose content has another
\* digest than the one in its entry
C30_Witness ==
    /\ cmd = "push" /\ pc = "done" /\ exitCode = 0
    /\ \E n \in Names :
        /\ HasOutcome(n, "pushed")
        /\ fs[n].kind = "file"
        /\ calculate_sha256(fs[n].content) # disk.ds[n].sha256
        /\ disk0.ds[n].paths[remote_key] = NoPath
        /\ disk.ds[n].paths[remote_key] = RelativePath(disk.manifest_uuid, n)

IsPrefix(s, t) == Len(s) <= Len(t) /\ SubSeq(t, 1, Len(s)) = s

\* C16: a save of the manifest as it was loaded (a push or pull that only
\* re-recorded paths already there) leaves manifest.yml identical, content
\* and order of keys, legacy fields included; after any save of add, push or
\* pull the top-level keys, the dataset names and the fields of every entry
\* the file had come first and in the same order, new ones after them, and
\* the remote profiles are as they were.
C16_SaveKeepsOrder ==
    cmd \in {"add", "push", "pull"} /\ disk0.exists =>
        /\ pc = "done" /\ exitCode = 0 /\ mem = disk0 => disk = disk0
        /\ IsPrefix(disk0.topKeys, disk.topKeys)
        /\ IsPrefix(disk0.dsKeys, disk.dsKeys)
        /\ \A n \in Names :
              /\ IsPrefix(disk0.ds[n].keys, disk.ds[n].keys)
              /\ InSeq("uuid", disk0.ds[n].keys) => disk.ds[n].uuid = disk0.ds[n].uuid
        /\ disk.remotes = disk0.remotes

\* a pull that verified a file whose remote path was already recorded wrote
\* back a manifest whose dataset names are not in sorted order
C16_Witness ==
    /\ cmd = "pull" /\ pc = "done" /\ exitCode = 0
    /\ manifest_updated
    /\ mem = disk0
    /\ disk = disk0
    /\ disk0.dsKeys = <<"b", "a">>

\* an add to a manifest written by an old version: the entry keeps its uuid
\* field in first place, manifest_uuid comes after the keys that were there
C16_WitnessLegacy ==
    /\ cmd = "add" /\ pc = "done" /\ exitCode = 0
    /\ disk # disk0
    /\ disk0 = LegacyManifest
    /\ disk.topKeys = <<"version", "datasets", "remote@1", "manifest_uuid">>
    /\ disk.ds["a"].keys[1] = "uuid"

(***************************************************************************)
(* Properties of init, under InitSpec.                                     *)
(***************************************************************************)
InitIdx == 1..Len(inits)
\* the init invocations that ended with exit code 0
InitOk == {i \in InitIdx : inits[i].exitCode = 0}
\* the manifest the i-th invocation wrote (init never overwrites one)
Made(i) ==
    IF inits[i].tool = "dss" THEN dirs[inits[i].dir].manifest
    ELSE dirs[inits[i].dir].archive
DefaultKeys == IF home.kind = "dict" THEN SelectSeq(home.keys, IsRemoteKey) ELSE <<>>
UuidsUsed == 2..(nextUuid - 1)

\* new is old followed by a subdirectory named by a generated uuid and a
\* separator
C15_Rewritten(old, new) ==
    \E u \in UuidsUsed : new = C14_Base(old) \o <<"/", ToString(u), "/">>

\* C15, as claimed: an init that ends with exit code 0 has put every remote@
\* profile of the default file into the new manifest with base_path
\* rewritten to <base_path>/<fresh uuid>/, and two manifests made by the same
\* tool from the same default file share no base_path.
C15_EveryProfileGetsFreshBasePath ==
    \A i \in InitOk :
        /\ \A j \in 1..Len(DefaultKeys) :
              /\ InSeq(DefaultKeys[j], Made(i).topKeys)
              /\ C15_Rewritten(home.values[DefaultKeys[j]].base_path,
                               Made(i).remotes[DefaultKeys[j]].base_path)
        /\ \A i2 \in InitOk \ {i} : \A k \in RemoteKeys :
              /\ inits[i2].tool = inits[i].tool
              /\ InSeq(k, Made(i).topKeys) /\ InSeq(k, Made(i2).topKeys)
              => Made(i).remotes[k].base_path # Made(i2).remotes[k].base_path

\* the remote@ keys archive init clones: those before the first profile
\* without base_path; dss init takes them all
C15_Cloned(tool) ==
    LET bad == {j \in 1..Len(DefaultKeys) :
                    ~InSeq("base_path", home.values[DefaultKeys[j]].keys)}
    IN  IF tool = "dss" \/ bad = {} THEN DefaultKeys
        ELSE SubSeq(DefaultKeys, 1, (CHOOSE j \in bad : \A h \in bad : j <= h) - 1)

\* the default profile with the --refpath of the invocation
C15_WithRef(p, refpath) ==
    IF refpath = "" THEN p
    ELSE [p EXCEPT !.keys = IF InSeq("local_ref_path", p.keys) THEN p.keys
                             ELSE p.keys \o <<"local_ref_path">>,
                   !.local_ref_path = refpath]

\* the remote directory under which the files of a manifest are stored
C15_RemoteRoot(i, k) ==
    IF inits[i].tool = "archive" THEN Made(i).remotes[k].base_path
    ELSE C14_Base(Made(i).remotes[k].base_path)
             \o <<"/", ToString(Made(i).manifest_uuid)>>

\* C15, as amended: archive init clones the remote@ profiles of the default
\* file, in order, up to the first one without base_path, each with
\* base_path rewritten to <base_path>/<fresh uuid>/; dss init copies every
\* remote@ profile unchanged and gives the manifest a fresh manifest_uuid.
\* Two manifests made by the same tool from the same default file never
\* share a remote directory (base_path for archive, base_path/manifest_uuid
\* for dss).
C15_IsolatedRemoteDirectories ==
    \A i \in InitOk :
        /\ SelectSeq(Made(i).topKeys, IsRemoteKey) = C15_Cloned(inits[i].tool)
        /\ \A k \in RemoteKeys : InSeq(k, Made(i).topKeys) =>
              IF inits[i].tool = "dss"
              THEN Made(i).remotes[k] = home.values[k]
              ELSE \E u \in UuidsUsed :
                     Made(i).remotes[k] =
                         [C15_WithRef(home.values[k], inits[i].refpath) EXCEPT
                             !.base_path = C14_Base(home.values[k].base_path)
                                               \o <<"/", ToString(u), "/">>]
        /\ \A i2 \in InitOk \ {i} : \A k \in RemoteKeys :
              /\ inits[i2].tool = inits[i].tool
              /\ InSeq(k, Made(i).topKeys) /\ InSeq(k, Made(i2).topKeys)
              => C15_RemoteRoot(i, k) # C15_RemoteRoot(i2, k)

\* two archives initialised from a default file with two profiles
C15_Witness ==
    /\ home = TwoConfig
    /\ Len(inits) = 2
    /\ \A i \in InitIdx : inits[i].tool = "archive" /\ inits[i].exitCode = 0
    /\ inits[1].dir # inits[2].dir
    /\ \A k \in RemoteKeys :
          Made(1).remotes[k].base_path # Made(2).remotes[k].base_path
\* the file the tool creates, in a directory
C18_File(tool, dir) == IF tool = "dss" THEN dir.manifest ELSE dir.archive

\* C18: an init (of dss or of archive) run in a directory that already holds
\* the tool's manifest file ends with exit code 1, announces no id,
\* generates none, and leaves the directory as it was: the manifest file
\* unchanged, no profile written, no .gitignore created or changed.
C18_InitKeepsExistingManifest ==
    [][Len(inits') = Len(inits) + 1 =>
          LET r == inits'[Len(inits')]
          IN  C18_File(r.tool, dirs[r.dir]).exists =>
                  /\ r.exitCode = 1
                  /\ r.uuid = 0
                  /\ nextUuid' = nextUuid
                  /\ dirs' = dirs]_vars

\* dss init refused in a directory with a manifest and no .gitignore, with a
\* default file holding a profile
C18_Witness ==
    /\ inits # <<>>
    /\ LET r == inits[Len(inits)]
       IN  /\ r.tool = "dss" /\ r.exitCode = 1
           /\ r.before.manifest = StdManifest
           /\ ~r.before.gitignore.exists
           /\ dirs[r.dir] = r.before
    /\ home = OneConfig

\* C19: the manifest file written by an init that ended with exit code 0
\* holds a manifest_uuid, which is the id the command announced, the schema
\* version, and a datasets mapping that is empty.
C19_InitPersistsAnnouncedId ==
    \A i \in InitOk :
        /\ inits[i].uuid # 0
        /\ HasTop(Made(i), "manifest_uuid")
        /\ Made(i).manifest_uuid = inits[i].uuid
        /\ HasTop(Made(i), "version")
        /\ HasTop(Made(i), "datasets")
        /\ Made(i).dsKeys = <<>>

(***************************************************************************)
(* Properties of format_size, under SizeSpec.                              *)
(***************************************************************************)
Formatted == fmt.size_human # NoSize
\* the position of the leading digit of the size, 1 for the size 0
C17_Lead ==
    LET nz == {i \in 1..MaxDigits : fmt.size_bytes[i] # 0}
    IN  IF nz = {} THEN 1 ELSE CHOOSE i \in nz : \A j \in nz : j <= i
\* the number of divisions by 1024 until the value is below 1024, at most 5
C17_Divisions == IF C17_Lead > 6 THEN 5 ELSE C17_Lead - 1
\* the integer part of the value after those divisions
C17_Whole ==
    IF C17_Divisions = 5
    THEN fmt.size_bytes[6] + 1024 * WholeFrom(fmt.size_bytes, 7)
    ELSE fmt.size_bytes[C17_Divisions + 1]
C17_Is(digits, whole, tenth, unit) ==
    fmt.size_bytes = digits =>
        fmt.size_human = [whole |-> whole, tenth |-> tenth, unit |-> unit]

C17_WitnessBytes ==
    /\ fmt.size_bytes = [ZeroDigits EXCEPT ![1] = 1023]
    /\ fmt.size_human = [whole |-> 1023, tenth |-> -1, unit |-> "B"]

\* C27: a size below 1024 bytes is printed like a size under any other
\* unit, with one decimal digit before the unit B: 0 gives 0.0B, 512 gives
\* 512.0B, 1023 gives 1023.0B.
C27_BytesWithDecimal ==
    Formatted /\ (\A i \in 2..MaxDigits : fmt.size_bytes[i] = 0) =>
        fmt.size_human = [whole |-> fmt.size_bytes[1], tenth |-> 0, unit |-> "B"]

(***************************************************************************)
(* Properties of archive push and pull, under ArchiveSpec.                 *)
(***************************************************************************)
\* C25: in archive push the rsync is run only after an ssh mkdir that
\* returned exit status 0; a mkdir that returned a non-zero status is
\* reported as a remote directory failure and no rsync follows it.
C25_MkdirFailureStopsPush ==
    cmd = "archive push" =>
        \A i \in OpIdx :
            /\ ops[i].op = "rsync" =>
                  /\ i > 1
                  /\ ops[i - 1].op = "mkdir"
                  /\ ops[i - 1].rc = 0
            /\ ops[i].op = "mkdir" /\ ops[i].rc # 0 =>
                  /\ pc # "rsync"
                  /\ i = Len(ops)
                  /\ pc = "done" => HasOutcome("", "remote_dir_failed")

\* the step is a call of ensure_gitignore in directory d: an archive push or
\* pull that got past its checks with a non-empty local_ref_path
C26_Called(d) ==
    /\ Len(inits') = Len(inits) + 1
    /\ inits'[Len(inits')].dir = d
    /\ inits'[Len(inits')].exitCode # 1
    /\ inits'[Len(inits')].refpath # ""
\* the number of lines of an ignore file that satisfy a test
C26_Count(ig, Test(_)) == Cardinality({i \in 1..Len(ig.lines) : Test(ig.lines[i])})

====
